---------------------------- MODULE Spec2Model ----------------------------
(***************************************************************************)
(* Agent Orchestration Engine of opencode-lb (orchestrator.ts, registry.ts,*)
(* lifecycle.ts).                                                          *)
(*                                                                         *)
(* The tool operations are async functions.  A call runs synchronously    *)
(* from one `await` to the next, so one action of this model is one such  *)
(* segment: the completion of the awaited collaborator call (with its     *)
(* effect on the tracker, tmux, the file system or the worker, and its    *)
(* outcome drawn nondeterministically) followed by the synchronous code   *)
(* up to the point where the next call is awaited.  pc[p] names the       *)
(* awaited call.  Several calls (Procs) are in flight at once, as when    *)
(* the coordinator issues tool calls in parallel.                         *)
(*                                                                         *)
(* Strings that the code transforms character by character (issue ids,    *)
(* branch names, tmux session names, paths) are sequences of characters.  *)
(***************************************************************************)
EXTENDS Naturals, Sequences, FiniteSets, TLC

(***************************************************************************)
(* Bounds and input sets                                                   *)
(***************************************************************************)
\* number of sleeps after which the port-discovery deadline has passed
MaxPolls == 2

\* concurrent tool calls
Procs == {"c1", "c2"}

\* issue ids given to the tools
Tasks == {<<"T", "-", "1">>, <<"T", "-", "2">>}

\* optional slug argument of dispatch; <<>> is "no slug"
Slugs == {<<>>, <<"x">>}

\* ports a worker may listen on; 0 stands for "not listening yet"
Ports == {4096, 4097}

\* session ids the control API may issue
SessionIds == {"ses_a", "ses_b"}

\* the value of a missing JSON field (sessionData.id of a body without id)
Undefined == "undefined"

\* readings of the wall clock (new Date().toISOString())
Times == {"t1"}

\* status values lb_cleanup accepts; "" is "argument not given"
CleanupStatuses == {"", "in_review", "todo_refined", "done"}

(***************************************************************************)
(* Pure helpers                                                            *)
(***************************************************************************)
\* issueId.replace(/-/g, "_")
tmuxSession(issueId) ==
    [i \in DOMAIN issueId |-> IF issueId[i] = "-" THEN "_" ELSE issueId[i]]

\* slug ? `${issueId}-${slug}` : `${issueId}`
branch(issueId, slug) ==
    IF slug # <<>> THEN issueId \o <<"-">> \o slug ELSE issueId

\* the sentinel branch label of a dispatch that skipped the worktree
NoWorktree == <<"(no worktree)">>

\* git rev-parse --show-toplevel of the coordinator's checkout
RepoRoot == <<"/", "w", "/", "r">>

\* dirname of RepoRoot
ParentDir == <<"/", "w">>

\* `${parentDir}/${branch}`
wtPathOf(br) == ParentDir \o <<"/">> \o br

Branches == {branch(t, s) : t \in Tasks, s \in Slugs}

TmuxNames == {tmuxSession(t) : t \in Tasks}

\* AgentEntry
AgentEntry(issueId, port, sessionId, tmuxName, br, path, at) ==
    [issueId |-> issueId, port |-> port, sessionId |-> sessionId,
     tmuxSession |-> tmuxName, branch |-> br, worktreePath |-> path,
     dispatchedAt |-> at]

\* placeholder for "no entry" in locals and results
NoEntry == AgentEntry(<<>>, 0, "", <<>>, <<>>, <<>>, "")

\* faulty variants of the registry operations, used to test the properties:
\* `has` that never finds a key, `set` that stores nothing, `delete` that
\* removes nothing
RegistryHasNever(reg, id) == FALSE

RegistrySetDropped(reg, id, e) == reg

RegistryDeleteKept(reg, id) == reg

\* AgentRegistry: a Map, modelled as a function whose domain is the key set
RegistryHas(reg, id) == id \in DOMAIN reg

RegistrySet(reg, id, e) ==
    [k \in (DOMAIN reg) \cup {id} |-> IF k = id THEN e ELSE reg[k]]

RegistryDelete(reg, id) ==
    [k \in (DOMAIN reg) \ {id} |-> reg[k]]

RegistryGet(reg, id) == IF id \in DOMAIN reg THEN reg[id] ELSE NoEntry

\* faulty variant: the `if (!agent)` test left out
NotFoundNever(agent) == FALSE

\* `if (!agent)` on the value of registry.get
NotFound(agent) == agent = NoEntry

(***************************************************************************)
(* State                                                                   *)
(***************************************************************************)
VARIABLES
    registry,       \* AgentRegistry.agents
    pc,             \* per call: the awaited step, "idle" or "returned"
    args,           \* per call: operation name and arguments
    loc,            \* per call: local variables of the running function
    trace,          \* per call: collaborator calls completed and events emitted
    result,         \* per call: the returned outcome (parsed JSON)
    rival,          \* history: dispatches of the same issue that raced this one past the guard
    prior,          \* history: how the call's previous dispatch of the same issue failed, if it did
    trackerStatus,  \* lb: status of each issue
    trackerDesc,    \* lb: description of each issue
    worktrees,      \* lb worktree: branches that have a worktree
    tmux,           \* tmux: live sessions, each running one worker
    logs,           \* /tmp/opencode-<issueId>.log: whether it exists and the port line in it
    boot,           \* LbPlugin startup: the reconstructRegistry call and whether the tools are registered
    poller,         \* pollBackgroundAgents: the cycle in progress, if any
    emitter         \* LifecycleEmitter: the handlers and, per caller, the emit in progress

\* the state of the tool calls
toolVars == <<pc, args, loc, trace, result, rival, prior>>
\* the state of the plugin outside the registry and the tool calls
hookVars == <<boot, poller>>
callVars == <<pc, args, loc, trace, result, rival, prior, boot, poller, emitter>>
envVars == <<trackerStatus, trackerDesc, worktrees, tmux, logs>>
vars == <<registry, pc, args, loc, trace, result, rival, prior,
          trackerStatus, trackerDesc, worktrees, tmux, logs, boot, poller, emitter>>

NoArgs ==
    [name |-> "none", issueId |-> <<>>, slug |-> <<>>, skipWorktree |-> FALSE,
     status |-> "", force |-> "unset", lines |-> 0]

\* no status probe made: outcome and messages are the answer getSessionStatus
\* last got from the worker (history)
NoProbe == [outcome |-> "", messages |-> <<>>]

NoLoc ==
    [agent |-> NoEntry, fullPrompt |-> "", wtPath |-> <<>>, port |-> 0,
     sessionId |-> "", issueDesc |-> "", polls |-> 0, results |-> <<>>, sessionStatus |-> "",
     diffStat |-> "null", error |-> "", probe |-> NoProbe,
     agents |-> <<>>, tmuxAlive |-> FALSE, snapshot |-> {}, hung |-> FALSE,
     sent |-> ""]

NoResult ==
    [status |-> "", issueId |-> <<>>, entry |-> NoEntry, error |-> "",
     actions |-> <<>>, httpOk |-> FALSE, agents |-> <<>>]

\* descriptions held by the tracker
EmptyDesc == [kind |-> "empty", port |-> 0, tmux |-> <<>>, session |-> ""]
TextDesc == [kind |-> "text", port |-> 0, tmux |-> <<>>, session |-> ""]

\* the text "undefined", as distinct from the value undefined
UndefinedText == "'undefined'"

\* `${v}` in a template literal: the text of a string is the string, the
\* text of undefined is "undefined"
TemplateText(v) == IF v = Undefined THEN UndefinedText ELSE v

\* `Port: ${port}, tmux: ${tmuxSession}, session: ${sessionId}`
MetaDesc(port, name, sessionId) ==
    [kind |-> "meta", port |-> port, tmux |-> name, session |-> TemplateText(sessionId)]

\* a description that is not a string (a number, an object) in the tracker's JSON
NonStringDesc == [kind |-> "nonstring", port |-> 0, tmux |-> <<>>, session |-> ""]

\* contents of a log path: no file, or a file with the port announced in it (0: none)
LogAbsent == [exists |-> FALSE, port |-> 0]
LogFile(port) == [exists |-> TRUE, port |-> port]

\* LbPlugin before `await reconstructRegistry($, registry)`: restarted tells
\* whether an earlier plugin instance existed, prev is the registry it had;
\* first and before are the registry and the outcome of an earlier run of
\* reconstructRegistry in this instance (history); stuck tells that the
\* `lb list` process of this run never exits, killed that proc.kill() was
\* called when the race resolved
FreshBoot(restarted, prev) ==
    [pc |-> "start", ready |-> FALSE, runs |-> 0, restarted |-> restarted,
     issues |-> <<>>, outcome |-> "", listed |-> <<>>, seen |-> <<>>,
     first |-> << >>, before |-> "", prev |-> prev, stuck |-> FALSE, killed |-> FALSE]

\* LbPlugin after startup against a tracker with no issue in progress
ReadyBoot ==
    [FreshBoot(FALSE, << >>) EXCEPT !.pc = "returned", !.ready = TRUE, !.runs = 1,
                                !.outcome = "empty"]

\* no poll cycle in progress: cur and port are the entry whose status is
\* being fetched, probes and events what the cycle has seen and emitted so
\* far (history), hung tells that the fetch in flight never settles, past
\* is what the cycle before this one has seen (history)
IdlePoller ==
    [pc |-> "idle", cur |-> <<>>, port |-> 0, probes |-> <<>>, events |-> <<>>,
     hung |-> FALSE, past |-> <<>>]

\* the kinds of lifecycle events
EventKinds ==
    {"agent:claimed", "agent:running", "agent:finished", "agent:errored",
     "agent:aborted", "agent:closed"}

\* those who call emitter.emit: the tool calls and the poll cycle
Callers == Procs \cup {"poller"}

\* no emit in progress; of an emit in progress, the event and the handlers
\* invoked so far with what each came to (history).  `list` of emit is the
\* array held by the map when emit started: detached tells that the map
\* holds another array by now (off has stored a filtered copy, or there was
\* no array and `?? []` made one), list is then the array emit goes through.
\* atStart is the content of the array when emit started and added are the
\* handlers registered for the event since (history)
NoRun ==
    [event |-> "", invoked |-> <<>>, raised |-> FALSE, detached |-> FALSE,
     list |-> <<>>, atStart |-> <<>>, added |-> <<>>]

\* this.handlers.get(event) ?? []
Registered(event) ==
    IF event \in DOMAIN emitter.handlers THEN emitter.handlers[event] ELSE <<>>

\* emitter.emit(event, payload) up to the call of the first handler
NewRun(event) ==
    [NoRun EXCEPT !.event = event,
                  !.detached = event \notin DOMAIN emitter.handlers,
                  !.atStart = Registered(event)]

\* what a handler may come to: it returns or resolves, it throws, or the
\* promise it returned rejects
Behaviours == {"returns", "throws", "rejects"}

\* no call of on or off made yet; of the last call, its name and arguments
\* (history)
NoCall == [op |-> "", event |-> "", handler |-> ""]

\* the emitter of LbPlugin: one toast handler for each kind of event
PluginEmitter ==
    [handlers |-> [k \in EventKinds |-> <<"returns">>],
     run |-> [c \in Callers |-> NoRun],
     last |-> NoCall]

\* the tool calls of a new plugin instance
InitCalls ==
    /\ pc = [p \in Procs |-> "idle"]
    /\ args = [p \in Procs |-> NoArgs]
    /\ loc = [p \in Procs |-> NoLoc]
    /\ trace = [p \in Procs |-> <<>>]
    /\ result = [p \in Procs |-> NoResult]
    /\ rival = [p \in Procs |-> {}]
    /\ prior = [p \in Procs |-> "none"]

Init ==
    /\ registry = << >>
    /\ boot = ReadyBoot
    /\ poller = IdlePoller
    /\ InitCalls
    /\ emitter = PluginEmitter
    /\ trackerStatus = [t \in Tasks |-> "todo_refined"]
    /\ trackerDesc = [t \in Tasks |-> IF t[3] = "1" THEN TextDesc ELSE EmptyDesc]
    /\ worktrees = {}
    /\ tmux = << >>
    /\ logs = [t \in Tasks |-> LogAbsent]

(***************************************************************************)
(* Bookkeeping shared by the operations                                    *)
(***************************************************************************)
Free(p) == pc[p] \in {"idle", "returned"}

\* faulty variant: the tools are usable before startup has finished
ReadyAlways(b) == TRUE

\* the tools and hooks exist once LbPlugin has returned them
Ready(b) == b.ready

\* a completed collaborator call or an emitted event
Step(name, ok) == [step |-> name, ok |-> ok]

Did(p, name) == Step(name, TRUE) \in {trace[p][i] : i \in DOMAIN trace[p]}

Tried(p, name) == \E i \in DOMAIN trace[p] : trace[p][i].step = name

\* the event of a trace step that is a call of emitter.emit, "" for others
EventOf(step) ==
    IF step = "emit:claimed" THEN "agent:claimed"
    ELSE IF step = "emit:running" THEN "agent:running"
    ELSE IF step = "emit:finished" THEN "agent:finished"
    ELSE IF step = "emit:closed" THEN "agent:closed"
    ELSE IF step = "emit:aborted" THEN "agent:aborted"
    ELSE ""

\* the emit a segment ends with, if its last step is `await emitter.emit(...)`
EmitCalled(steps) ==
    IF steps # <<>> /\ EventOf(steps[Len(steps)].step) # ""
    THEN NewRun(EventOf(steps[Len(steps)].step))
    ELSE NoRun

\* the segment ends at the next await
Await(p, next, steps, l) ==
    /\ pc' = [pc EXCEPT ![p] = next]
    /\ trace' = [trace EXCEPT ![p] = @ \o steps]
    /\ loc' = [loc EXCEPT ![p] = l]
    /\ emitter' = [emitter EXCEPT !.run[p] = EmitCalled(steps)]
    /\ UNCHANGED <<args, result, rival, prior, hookVars>>

\* the segment ends with `return JSON.stringify(r)`
Return(p, steps, r) ==
    /\ pc' = [pc EXCEPT ![p] = "returned"]
    /\ trace' = [trace EXCEPT ![p] = @ \o steps]
    /\ result' = [result EXCEPT ![p] = r]
    /\ loc' = [loc EXCEPT ![p] = NoLoc]
    /\ emitter' = [emitter EXCEPT !.run[p] = NoRun]
    /\ UNCHANGED <<args, rival, prior, hookVars>>

\* dispatches of issue id in flight that passed the guard and have not inserted yet
Racers(p, id) ==
    {q \in Procs \ {p} : /\ ~Free(q)
                         /\ args[q].issueId = id
                         /\ args[q].name = "dispatch"
                         /\ pc[q] # "emit_running"}

\* whether the call that p starts retries a dispatch of the same issue that
\* p has just seen fail, before or after the tmux session was created
PriorOf(p, a) ==
    IF /\ a.name = "dispatch" /\ args[p].name = "dispatch"
       /\ a.issueId = args[p].issueId
       /\ pc[p] = "returned" /\ result[p].status = "error"
    THEN (IF Did(p, "tmux_new") THEN "failed_late" ELSE "failed_early")
    ELSE "none"

\* a call of p starts: fresh locals, trace and result
Begin(p, a, next, l, racing) ==
    /\ Free(p)
    /\ Ready(boot)
    /\ UNCHANGED hookVars
    /\ emitter' = [emitter EXCEPT !.run[p] = NoRun]
    /\ prior' = [prior EXCEPT ![p] = PriorOf(p, a)]
    /\ rival' = [q \in Procs |->
                   IF q = p THEN (IF racing THEN Racers(p, a.issueId) ELSE {})
                   ELSE IF racing /\ q \in Racers(p, a.issueId)
                        THEN rival[q] \cup {p} ELSE rival[q]]
    /\ pc' = [pc EXCEPT ![p] = next]
    /\ args' = [args EXCEPT ![p] = a]
    /\ loc' = [loc EXCEPT ![p] = l]
    /\ trace' = [trace EXCEPT ![p] = <<>>]
    /\ result' = [result EXCEPT ![p] = NoResult]

\* a call of p starts and returns in the same segment (no await reached)
BeginReturn(p, a, r) ==
    /\ Free(p)
    /\ Ready(boot)
    /\ UNCHANGED hookVars
    /\ emitter' = [emitter EXCEPT !.run[p] = NoRun]
    /\ pc' = [pc EXCEPT ![p] = "returned"]
    /\ args' = [args EXCEPT ![p] = a]
    /\ loc' = [loc EXCEPT ![p] = NoLoc]
    /\ trace' = [trace EXCEPT ![p] = <<>>]
    /\ result' = [result EXCEPT ![p] = r]
    /\ rival' = [rival EXCEPT ![p] = {}]
    /\ prior' = [prior EXCEPT ![p] = PriorOf(p, a)]

\* faulty variant: the catch clause throws again, no outcome is returned
ErrorResultRethrown(id, msg) == NoResult

\* `catch (e) { return JSON.stringify({status: "error", issueId, error}) }`
ErrorResult(id, msg) ==
    [NoResult EXCEPT !.status = "error", !.issueId = id, !.error = msg]

\* an HTTP request to localhost:port is answered only by a worker listening there
Served(port) == port # 0 /\ \E n \in DOMAIN tmux : tmux[n].port = port

(***************************************************************************)
(* Environment: the worker inside a tmux session                           *)
(***************************************************************************)
\* a freshly launched `opencode serve 2>&1 | tee logFile`
NewWorker(id) ==
    [log |-> id, port |-> 0, linked |-> TRUE, sessions |-> {}]

\* opencode serve binds a port and prints "listening on http://127.0.0.1:<port>";
\* tee appends the line to the file it opened, which is still the file at
\* the log path unless that path was removed since
WorkerListen(n) ==
    /\ n \in DOMAIN tmux
    /\ tmux[n].port = 0
    /\ \E port \in Ports :
         /\ ~Served(port)
         /\ tmux' = [tmux EXCEPT ![n].port = port]
         /\ logs' = IF tmux[n].linked /\ logs[tmux[n].log].exists
                    THEN [logs EXCEPT ![tmux[n].log] = LogFile(port)]
                    ELSE logs
    /\ UNCHANGED <<registry, callVars, trackerStatus, trackerDesc, worktrees>>

\* the worker process exits (crash, manual kill): its tmux session vanishes
TmuxVanish(n) ==
    /\ n \in DOMAIN tmux
    /\ tmux' = [m \in (DOMAIN tmux) \ {n} |-> tmux[m]]
    /\ UNCHANGED <<registry, callVars, trackerStatus, trackerDesc, worktrees, logs>>

\* rm -f of the log path: the path is gone, a tee that had it open keeps
\* writing to the unlinked file
Unlink(id) ==
    [n \in DOMAIN tmux |->
       IF tmux[n].log = id THEN [tmux[n] EXCEPT !.linked = FALSE] ELSE tmux[n]]

(***************************************************************************)
(* dispatch                                                                *)
(***************************************************************************)
DispatchArgs(id, slug, skip) ==
    [NoArgs EXCEPT !.name = "dispatch", !.issueId = id, !.slug = slug,
                   !.skipWorktree = skip]

\* issue.description || issue.title || ""
DescriptionOrTitle(d) == IF d.kind = "empty" THEN "title" ELSE "description"

\* faulty variant: the description is fetched and not used
FullPromptBare(issueDesc) == "prompt"

\* issueDesc ? `## Issue: ...${issueDesc}...${prompt}` : prompt
FullPrompt(issueDesc) == IF issueDesc # "" THEN "issue+prompt" ELSE "prompt"

TimeoutMsg == "Timed out waiting for opencode serve to start"

\* `if (registry.has(issueId)) return {status: "already_dispatched", ...existing}`,
\* otherwise getIssueDescription awaits `lb show --json`
DispatchCallOn(p, inputs) ==
    \E a \in inputs :
      LET id == a.issueId IN
        /\ IF RegistryHas(registry, id)
           THEN BeginReturn(p, a, [NoResult EXCEPT !.status = "already_dispatched",
                                                   !.issueId = id,
                                                   !.entry = RegistryGet(registry, id)])
           ELSE Begin(p, a, "show_json", NoLoc, TRUE)
        /\ UNCHANGED <<registry, envVars>>

\* the issues that get dispatched; the other issues of Tasks are only ever
\* looked up
Dispatchable == {<<"T", "-", "1">>}

DispatchInputs ==
    {DispatchArgs(id, slug, skip) : id \in Dispatchable, slug \in Slugs, skip \in BOOLEAN}

DispatchCall(p) == DispatchCallOn(p, DispatchInputs)

\* getIssueDescription: `lb show --json` answered; on a failure of the
\* command or of JSON.parse the plain `lb show` is awaited
DispatchShowJson(p) ==
    /\ pc[p] = "show_json"
    /\ \/ LET d == DescriptionOrTitle(trackerDesc[args[p].issueId]) IN
            Await(p, "claim", <<Step("show_json", TRUE)>>,
                  [loc[p] EXCEPT !.issueDesc = d, !.fullPrompt = FullPrompt(d)])
       \/ Await(p, "show_plain", <<Step("show_json", FALSE)>>, loc[p])
    /\ UNCHANGED <<registry, envVars>>

\* getIssueDescription fallback: plain text, or "" when that fails too
DispatchShowPlain(p) ==
    /\ pc[p] = "show_plain"
    /\ \/ Await(p, "claim", <<Step("show_plain", TRUE)>>,
                [loc[p] EXCEPT !.issueDesc = "plain", !.fullPrompt = FullPrompt("plain")])
       \/ Await(p, "claim", <<Step("show_plain", FALSE)>>,
                [loc[p] EXCEPT !.issueDesc = "", !.fullPrompt = FullPrompt("")])
    /\ UNCHANGED <<registry, envVars>>

\* step 1: `lb update --status in_progress`, then emit("agent:claimed")
DispatchClaim(p) ==
    /\ pc[p] = "claim"
    /\ \/ /\ trackerStatus' = [trackerStatus EXCEPT ![args[p].issueId] = "in_progress"]
          /\ Await(p, "emit_claimed",
                   <<Step("claim", TRUE), Step("emit:claimed", TRUE)>>, loc[p])
       \/ /\ Return(p, <<Step("claim", FALSE)>>,
                    ErrorResult(args[p].issueId, "lb update --status failed"))
          /\ UNCHANGED trackerStatus
    /\ UNCHANGED <<registry, trackerDesc, worktrees, tmux, logs>>

\* faulty variant: the worktree is never created
AfterClaimedNoWorktree(skip) == "revparse"

\* the call awaited after `claimed`: worktree creation unless skipWorktree
AfterClaimed(skip) == IF skip THEN "revparse" ELSE "wt_create"

\* the handlers of `claimed` have settled
DispatchEmitClaimed(p) ==
    /\ pc[p] = "emit_claimed"
    /\ Await(p, AfterClaimed(args[p].skipWorktree), <<>>, loc[p])
    /\ UNCHANGED <<registry, envVars>>

\* step 2: `lb worktree create ${branch}`
DispatchWorktreeCreate(p) ==
    /\ pc[p] = "wt_create"
    /\ \/ /\ worktrees' = worktrees \cup {branch(args[p].issueId, args[p].slug)}
          /\ Await(p, "revparse", <<Step("wt_create", TRUE)>>, loc[p])
       \/ /\ Return(p, <<Step("wt_create", FALSE)>>,
                    ErrorResult(args[p].issueId, "lb worktree create failed"))
          /\ UNCHANGED worktrees
    /\ UNCHANGED <<registry, trackerStatus, trackerDesc, tmux, logs>>

\* `git rev-parse --show-toplevel`: the worktree path itself when
\* skipWorktree, otherwise the input of dirname
DispatchRevParse(p) ==
    /\ pc[p] = "revparse"
    /\ \/ IF args[p].skipWorktree
          THEN Await(p, "rm_log", <<Step("revparse", TRUE)>>,
                     [loc[p] EXCEPT !.wtPath = RepoRoot])
          ELSE Await(p, "dirname", <<Step("revparse", TRUE)>>, loc[p])
       \/ Return(p, <<Step("revparse", FALSE)>>,
                 ErrorResult(args[p].issueId, "git rev-parse failed"))
    /\ UNCHANGED <<registry, envVars>>

\* step 3: `dirname ${repoRoot}`; wtPath = `${parentDir}/${branch}`
DispatchDirname(p) ==
    /\ pc[p] = "dirname"
    /\ \/ Await(p, "rm_log", <<Step("dirname", TRUE)>>,
                [loc[p] EXCEPT !.wtPath = wtPathOf(branch(args[p].issueId, args[p].slug))])
       \/ Return(p, <<Step("dirname", FALSE)>>,
                 ErrorResult(args[p].issueId, "dirname failed"))
    /\ UNCHANGED <<registry, envVars>>

\* step 4a: `rm -f ${logFile}`
DispatchRmLog(p) ==
    /\ pc[p] = "rm_log"
    /\ \/ /\ logs' = [logs EXCEPT ![args[p].issueId] = LogAbsent]
          /\ tmux' = Unlink(args[p].issueId)
          /\ Await(p, "tmux_new", <<Step("rm_log", TRUE)>>, loc[p])
       \/ /\ Return(p, <<Step("rm_log", FALSE)>>,
                    ErrorResult(args[p].issueId, "rm failed"))
          /\ UNCHANGED <<logs, tmux>>
    /\ UNCHANGED <<registry, trackerStatus, trackerDesc, worktrees>>

\* step 4b: `tmux new-session -d -s ${tmuxSession} -c ${wtPath} bash -c "opencode
\* serve 2>&1 | tee logFile"`; tmux refuses a session name that is in use.
\* On success tee creates the log file and waitForPort starts: its first
\* loop test holds (0 < timeoutMs) and `cat` is awaited
DispatchTmuxNew(p) ==
    /\ pc[p] = "tmux_new"
    /\ LET id == args[p].issueId
           n == tmuxSession(id) IN
         \/ /\ n \notin DOMAIN tmux
            /\ tmux' = [m \in (DOMAIN tmux) \cup {n} |->
                          IF m = n THEN NewWorker(id) ELSE tmux[m]]
            /\ logs' = [logs EXCEPT ![id] = LogFile(0)]
            /\ Await(p, "cat_log", <<Step("tmux_new", TRUE)>>,
                     [loc[p] EXCEPT !.polls = 0])
         \/ /\ Return(p, <<Step("tmux_new", FALSE)>>,
                      ErrorResult(id, "tmux new-session failed"))
            /\ UNCHANGED <<tmux, logs>>
    /\ UNCHANGED <<registry, trackerStatus, trackerDesc, worktrees>>

\* faulty variant: the default port is assumed when the log has no port line
PortInLogOrDefault(log) == IF log.exists /\ log.port # 0 THEN log.port ELSE 4096

\* log.match(/listening on http:\/\/(?:127\.0\.0\.1|localhost):(\d+)/)
PortInLog(log) == IF log.exists THEN log.port ELSE 0

\* waitForPort: `cat ${logFile}` (nothrow) answered; a match returns the
\* port and step 6 awaits POST /session, otherwise sleep(500) is awaited.
\* The trace keeps whether the file held the port line
DispatchCatLog(p) ==
    /\ pc[p] = "cat_log"
    /\ LET log == logs[args[p].issueId]
           port == PortInLog(log)
           read == Step("cat_log", log.exists /\ log.port # 0) IN
         IF port # 0
         THEN Await(p, "post_session", <<read, Step("port", TRUE)>>,
                    [loc[p] EXCEPT !.port = port])
         ELSE Await(p, "sleep", <<read>>, loc[p])
    /\ UNCHANGED <<registry, envVars>>

\* the loop test `Date.now() - start < timeoutMs` is false for certain after
\* MaxPolls sleeps
WaitExpired(polls) == polls >= MaxPolls

\* waitForPort: the sleep is over; the loop goes on while the deadline has
\* not passed (it may pass at any time, the commands take time too) and
\* throws the timeout error when it has
DispatchSleep(p) ==
    /\ pc[p] = "sleep"
    /\ \/ /\ ~WaitExpired(loc[p].polls + 1)
          /\ Await(p, "cat_log", <<>>, [loc[p] EXCEPT !.polls = @ + 1])
       \/ Return(p, <<Step("timeout", TRUE)>>,
                 ErrorResult(args[p].issueId, TimeoutMsg))
    /\ UNCHANGED <<registry, envVars>>

\* outcomes of an HTTP exchange with the control API
HttpOutcomes == {"ok", "ok_text", "http_error_json", "http_error_text", "network_error"}

\* the worker that answers on a port
WorkerAt(port) == CHOOSE n \in DOMAIN tmux : tmux[n].port = port

\* `sessionData.id` of the parsed response body: the issued id, or undefined
\* when the body is JSON without an id (an error body); resp.ok is not looked at
SessionIdOf(outcome, issued) == IF outcome = "ok" THEN issued ELSE Undefined

\* step 6: POST /session answered (or fetch rejected, or the body is not
\* JSON, both of which throw); then step 7 awaits POST prompt_async
DispatchPostSession(p) ==
    /\ pc[p] = "post_session"
    /\ \/ /\ Served(loc[p].port)
          /\ \E s \in SessionIds \ tmux[WorkerAt(loc[p].port)].sessions :
               /\ tmux' = [tmux EXCEPT ![WorkerAt(loc[p].port)].sessions = @ \cup {s}]
               /\ Await(p, "post_prompt", <<Step("post_session", TRUE)>>,
                        [loc[p] EXCEPT !.sessionId = SessionIdOf("ok", s)])
       \/ /\ Served(loc[p].port)
          /\ Await(p, "post_prompt", <<Step("post_session", FALSE)>>,
                   [loc[p] EXCEPT !.sessionId = SessionIdOf("http_error_json", Undefined)])
          /\ UNCHANGED tmux
       \/ /\ Served(loc[p].port)
          /\ Return(p, <<Step("post_session", FALSE)>>,
                    ErrorResult(args[p].issueId, "response body is not JSON"))
          /\ UNCHANGED tmux
       \/ /\ Return(p, <<Step("post_session", FALSE)>>,
                    ErrorResult(args[p].issueId, "fetch failed"))
          /\ UNCHANGED tmux
    /\ UNCHANGED <<registry, trackerStatus, trackerDesc, worktrees, logs>>

\* step 7: POST prompt_async answered with any HTTP status (the response is
\* not looked at), or fetch rejected; then step 8 awaits `lb update -d`
DispatchPostPrompt(p) ==
    /\ pc[p] = "post_prompt"
    /\ \/ /\ Served(loc[p].port)
          /\ \E ok \in BOOLEAN :
               /\ ok => loc[p].sessionId \in tmux[WorkerAt(loc[p].port)].sessions
               /\ Await(p, "write_meta", <<Step("post_prompt", ok)>>,
                        [loc[p] EXCEPT !.sent = loc[p].fullPrompt])
       \/ Return(p, <<Step("post_prompt", FALSE)>>,
                 ErrorResult(args[p].issueId, "fetch failed"))
    /\ UNCHANGED <<registry, envVars>>

\* step 9: the entry that is registered
DispatchEntry(a, l, at) ==
    AgentEntry(a.issueId, l.port, l.sessionId, tmuxSession(a.issueId),
               IF a.skipWorktree THEN NoWorktree ELSE branch(a.issueId, a.slug),
               l.wtPath, at)

\* faulty variant of steps 8-10: the entry is inserted before `lb update -d`
\* is awaited, so a failed update leaves it behind
DispatchWriteMetaEntryFirst(p) ==
    /\ pc[p] = "write_meta"
    /\ LET id == args[p].issueId IN
         \E at \in Times :
           LET entry == DispatchEntry(args[p], loc[p], at) IN
             /\ registry' = RegistrySet(registry, id, entry)
             /\ \/ /\ trackerDesc' = [trackerDesc EXCEPT ![id] =
                                        MetaDesc(loc[p].port, tmuxSession(id),
                                                 loc[p].sessionId)]
                   /\ Await(p, "emit_running",
                            <<Step("registry.set", TRUE), Step("write_meta", TRUE),
                              Step("emit:running", TRUE)>>,
                            [loc[p] EXCEPT !.agent = entry])
                \/ /\ Return(p, <<Step("registry.set", TRUE), Step("write_meta", FALSE)>>,
                             ErrorResult(id, "lb update -d failed"))
                   /\ UNCHANGED trackerDesc
    /\ UNCHANGED <<trackerStatus, worktrees, tmux, logs>>

\* steps 8-10: `lb update -d ${meta}` answered; registry.set(issueId, entry)
\* and emit("agent:running") follow in the same segment
DispatchWriteMeta(p) ==
    /\ pc[p] = "write_meta"
    /\ LET id == args[p].issueId IN
         \/ \E at \in Times :
              LET entry == DispatchEntry(args[p], loc[p], at) IN
                /\ trackerDesc' = [trackerDesc EXCEPT ![id] =
                                     MetaDesc(loc[p].port, tmuxSession(id), loc[p].sessionId)]
                /\ registry' = RegistrySet(registry, id, entry)
                /\ Await(p, "emit_running",
                         <<Step("write_meta", TRUE), Step("registry.set", TRUE),
                           Step("emit:running", TRUE)>>,
                         [loc[p] EXCEPT !.agent = entry])
         \/ /\ Return(p, <<Step("write_meta", FALSE)>>,
                      ErrorResult(id, "lb update -d failed"))
            /\ UNCHANGED <<registry, trackerDesc>>
    /\ UNCHANGED <<trackerStatus, worktrees, tmux, logs>>

\* the handlers of `running` have settled: `return {status: "dispatched", ...entry}`
DispatchEmitRunning(p) ==
    /\ pc[p] = "emit_running"
    /\ Return(p, <<>>, [NoResult EXCEPT !.status = "dispatched",
                                        !.issueId = args[p].issueId,
                                        !.entry = loc[p].agent])
    /\ UNCHANGED <<registry, envVars>>

dispatchSteps(p) ==
    \/ DispatchShowJson(p)
    \/ DispatchShowPlain(p)
    \/ DispatchClaim(p)
    \/ DispatchEmitClaimed(p)
    \/ DispatchWorktreeCreate(p)
    \/ DispatchRevParse(p)
    \/ DispatchDirname(p)
    \/ DispatchRmLog(p)
    \/ DispatchTmuxNew(p)
    \/ DispatchCatLog(p)
    \/ DispatchSleep(p)
    \/ DispatchPostSession(p)
    \/ DispatchPostPrompt(p)
    \/ DispatchWriteMeta(p)
    \/ DispatchEmitRunning(p)

dispatch(p) ==
    \/ DispatchCall(p)
    \/ dispatchSteps(p)

(***************************************************************************)
(* cleanupAgent                                                            *)
(***************************************************************************)
\* a line of the `results` list; arg is the interpolated part, if any
Note(text, arg) == [note |-> text, arg |-> arg]

CleanupArgs(id, status, force) ==
    [NoArgs EXCEPT !.name = "cleanup", !.issueId = id, !.status = status,
                   !.force = force]

\* the cleanups tried: every status with force not given, and the default
\* status with force given as true and as false
CleanupInputs ==
    {CleanupArgs(id, st, "unset") : id \in Tasks, st \in CleanupStatuses}
      \cup {CleanupArgs(id, "", f) : id \in Tasks, f \in {"true", "false"}}

\* const shouldForce = force !== false
shouldForce(force) == force # "false"

\* const newStatus = status || "in_review"
newStatus(status) == IF status = "" THEN "in_review" ELSE status

\* faulty variant: the kill is reported as done whether it failed or not
KillNoteAlwaysKilled(ok) == Note("tmux killed", "")

\* the notes pushed by steps 1, 2, 3 and 5
KillNote(ok) == IF ok THEN Note("tmux killed", "") ELSE Note("tmux already gone", "")

WorktreeNote(ok) ==
    IF ok THEN Note("worktree deleted", "") ELSE Note("worktree delete failed", "message")

StatusNote(ok, st) ==
    IF ok THEN Note("status set to", st) ELSE Note("status update failed", "message")

SyncNotes(ok) == IF ok THEN <<Note("synced", "")>> ELSE <<>>

\* the call awaited after the tmux kill: the worktree deletion unless the
\* entry carries the no-worktree sentinel
AfterKill(agent) == IF agent.branch # NoWorktree THEN "wt_delete" ELSE "set_status"

\* `const agent = registry.get(issueId); if (!agent) return {status: "not_found"}`,
\* otherwise step 1 awaits `tmux kill-session`
CleanupCall(p) ==
    \E a \in CleanupInputs :
      /\ IF NotFound(RegistryGet(registry, a.issueId))
         THEN BeginReturn(p, a, [NoResult EXCEPT !.status = "not_found",
                                                 !.issueId = a.issueId])
         ELSE Begin(p, a, "kill_tmux",
                    [NoLoc EXCEPT !.agent = RegistryGet(registry, a.issueId)], FALSE)
      /\ UNCHANGED <<registry, envVars>>

\* step 1: `tmux kill-session -t ${agent.tmuxSession}`; it fails when the
\* session does not exist
CleanupKillTmux(p) ==
    /\ pc[p] = "kill_tmux"
    /\ LET n == loc[p].agent.tmuxSession IN
         \/ /\ n \in DOMAIN tmux
            /\ tmux' = [m \in (DOMAIN tmux) \ {n} |-> tmux[m]]
            /\ Await(p, AfterKill(loc[p].agent), <<Step("kill_tmux", TRUE)>>,
                     [loc[p] EXCEPT !.results = Append(@, KillNote(TRUE))])
         \/ /\ UNCHANGED tmux
            /\ Await(p, AfterKill(loc[p].agent), <<Step("kill_tmux", FALSE)>>,
                     [loc[p] EXCEPT !.results = Append(@, KillNote(FALSE))])
    /\ UNCHANGED <<registry, trackerStatus, trackerDesc, worktrees, logs>>

\* the command of step 2
WorktreeDeleteStep(force) == IF shouldForce(force) THEN "wt_delete_force" ELSE "wt_delete"

\* step 2: `lb worktree delete ${agent.branch}` (--force unless force is false)
CleanupWorktreeDelete(p) ==
    /\ pc[p] = "wt_delete"
    /\ \/ /\ worktrees' = worktrees \ {loc[p].agent.branch}
          /\ Await(p, "set_status", <<Step(WorktreeDeleteStep(args[p].force), TRUE)>>,
                   [loc[p] EXCEPT !.results = Append(@, WorktreeNote(TRUE))])
       \/ /\ UNCHANGED worktrees
          /\ Await(p, "set_status", <<Step(WorktreeDeleteStep(args[p].force), FALSE)>>,
                   [loc[p] EXCEPT !.results = Append(@, WorktreeNote(FALSE))])
    /\ UNCHANGED <<registry, trackerStatus, trackerDesc, tmux, logs>>

\* faulty variant: `finished` is raised whatever status was set
TerminalEventAlwaysFinished(st) == "emit:finished"

\* step 4: the lifecycle event raised for the status, "" for none
TerminalEvent(st) ==
    IF st = "in_review" THEN "emit:finished"
    ELSE IF st = "done" THEN "emit:closed"
    ELSE ""

\* step 3: `lb update --status ${newStatus}` answered; step 4 follows in the
\* same segment: emit finished/closed is awaited, or with no event to emit
\* step 5 awaits `lb sync`
CleanupSetStatus(p) ==
    /\ pc[p] = "set_status"
    /\ LET st == newStatus(args[p].status)
           ev == TerminalEvent(st)
           next == IF ev # "" THEN "emit_terminal" ELSE "sync"
           emitted == IF ev # "" THEN <<Step(ev, TRUE)>> ELSE <<>> IN
         \/ /\ trackerStatus' = [trackerStatus EXCEPT ![args[p].issueId] = st]
            /\ Await(p, next, <<Step("set_status", TRUE)>> \o emitted,
                     [loc[p] EXCEPT !.results = Append(@, StatusNote(TRUE, st))])
         \/ /\ UNCHANGED trackerStatus
            /\ Await(p, next, <<Step("set_status", FALSE)>> \o emitted,
                     [loc[p] EXCEPT !.results = Append(@, StatusNote(FALSE, st))])
    /\ UNCHANGED <<registry, trackerDesc, worktrees, tmux, logs>>

\* the handlers of the terminal event have settled; step 5 awaits `lb sync`
CleanupEmitTerminal(p) ==
    /\ pc[p] = "emit_terminal"
    /\ Await(p, "sync", <<>>, loc[p])
    /\ UNCHANGED <<registry, envVars>>

\* steps 5-6: `lb sync` answered (a failure is swallowed), then
\* registry.delete(issueId); step 7 awaits `rm -f` of the log file
CleanupSync(p) ==
    /\ pc[p] = "sync"
    /\ registry' = RegistryDelete(registry, args[p].issueId)
    /\ \/ Await(p, "rm_log_cleanup",
                <<Step("sync", TRUE), Step("registry.delete", TRUE)>>,
                [loc[p] EXCEPT !.results = @ \o SyncNotes(TRUE)])
       \/ Await(p, "rm_log_cleanup",
                <<Step("sync", FALSE), Step("registry.delete", TRUE)>>,
                [loc[p] EXCEPT !.results = @ \o SyncNotes(FALSE)])
    /\ UNCHANGED envVars

\* step 7: `rm -f /tmp/opencode-${issueId}.log` answered (a failure is
\* swallowed); `return {status: "cleaned_up", issueId, actions: results}`
CleanupRmLog(p) ==
    /\ pc[p] = "rm_log_cleanup"
    /\ LET r == [NoResult EXCEPT !.status = "cleaned_up",
                                 !.issueId = args[p].issueId,
                                 !.actions = loc[p].results] IN
         \/ /\ logs' = [logs EXCEPT ![args[p].issueId] = LogAbsent]
            /\ tmux' = Unlink(args[p].issueId)
            /\ Return(p, <<Step("rm_log", TRUE)>>, r)
         \/ /\ UNCHANGED <<logs, tmux>>
            /\ Return(p, <<Step("rm_log", FALSE)>>, r)
    /\ UNCHANGED <<registry, trackerStatus, trackerDesc, worktrees>>

cleanupAgent(p) ==
    \/ CleanupCall(p)
    \/ CleanupKillTmux(p)
    \/ CleanupWorktreeDelete(p)
    \/ CleanupSetStatus(p)
    \/ CleanupEmitTerminal(p)
    \/ CleanupSync(p)
    \/ CleanupRmLog(p)

(***************************************************************************)
(* getSessionStatus, checkAgent, followupAgent, abortAgent                 *)
(***************************************************************************)
Roles == {"assistant", "user", "system"}
MsgStatuses == {"completed", "done", "streaming", "pending"}

\* a message record of GET /session/:id/message
Msg(role, status) == [role |-> role, status |-> status]

\* message lists the worker may return
MessageLists ==
    {<<>>} \cup {<<Msg(r, st)>> : r \in Roles, st \in MsgStatuses}
           \cup {<<Msg("user", "completed"), Msg(r, st)>> : r \in Roles, st \in MsgStatuses}

\* faulty variant: a last message it does not recognise counts as running
getSessionStatusElseRunning(outcome, messages) ==
    IF outcome # "ok" THEN "unreachable"
    ELSE IF Len(messages) = 0 THEN "idle"
    ELSE LET lastMsg == messages[Len(messages)] IN
           IF lastMsg.role = "assistant" /\ lastMsg.status \in {"completed", "done"}
             THEN "finished"
           ELSE "running"

\* getSessionStatus on the answer of the message request
getSessionStatus(outcome, messages) ==
    IF outcome # "ok" THEN "unreachable"
    ELSE IF Len(messages) = 0 THEN "idle"
    ELSE LET lastMsg == messages[Len(messages)] IN
           IF lastMsg.role = "assistant" /\ lastMsg.status \in {"completed", "done"}
             THEN "finished"
           ELSE IF lastMsg.role = "assistant" /\ lastMsg.status = "streaming"
             THEN "running"
           ELSE IF lastMsg.role = "user" THEN "running"
           ELSE "idle"

\* outcomes of a request to an entry's port: a worker must listen there for
\* an HTTP response to come back
Answers(port) ==
    IF Served(port) THEN HttpOutcomes ELSE {"network_error"}

CheckArgs(id) == [NoArgs EXCEPT !.name = "check", !.issueId = id]

\* `const agent = registry.get(issueId); if (!agent) return {status: "not_found"}`,
\* otherwise getSessionStatus awaits the message request
CheckCall(p) ==
    \E id \in Tasks :
      /\ IF NotFound(RegistryGet(registry, id))
         THEN BeginReturn(p, CheckArgs(id), [NoResult EXCEPT !.status = "not_found",
                                                             !.issueId = id])
         ELSE Begin(p, CheckArgs(id), "check_status",
                    [NoLoc EXCEPT !.agent = RegistryGet(registry, id)], FALSE)
      /\ UNCHANGED <<registry, envVars>>

\* the call awaited after getSessionStatus: the diff stat if the entry has a
\* worktree path, else the message request
AfterStatus(agent) == IF agent.worktreePath # <<>> THEN "check_diff" ELSE "check_messages"

\* getSessionStatus answered (it never throws)
CheckStatus(p) ==
    /\ pc[p] = "check_status"
    /\ \E outcome \in Answers(loc[p].agent.port), messages \in MessageLists :
         Await(p, AfterStatus(loc[p].agent), <<Step("get_messages", outcome = "ok")>>,
               [loc[p] EXCEPT !.sessionStatus = getSessionStatus(outcome, messages),
                              !.probe = [outcome |-> outcome,
                                         messages |-> IF outcome = "ok" THEN messages
                                                      ELSE <<>>]])
    /\ UNCHANGED <<registry, envVars>>

\* getGitDiffStat answered: the stat, or null when empty or failed
CheckDiff(p) ==
    /\ pc[p] = "check_diff"
    /\ \E stat \in {"stat", "null"} :
         Await(p, "check_messages", <<Step("git_diff", stat # "null")>>,
               [loc[p] EXCEPT !.diffStat = stat])
    /\ UNCHANGED <<registry, envVars>>

\* the message request of checkAgent answered: a non-OK response returns
\* the session status with the HTTP status, an OK one the recent messages;
\* a rejected fetch or an OK response with an unparsable body throws and the catch awaits
\* `tmux capture-pane`
CheckMessages(p) ==
    /\ pc[p] = "check_messages"
    /\ \E outcome \in Answers(loc[p].agent.port) :
         IF outcome \in {"network_error", "ok_text"}
         THEN Await(p, "check_capture", <<Step("get_messages", FALSE)>>,
                    [loc[p] EXCEPT !.error = "fetch failed"])
         ELSE Return(p, <<Step("get_messages", outcome = "ok")>>,
                     [NoResult EXCEPT !.status = loc[p].sessionStatus,
                                      !.issueId = args[p].issueId,
                                      !.entry = IF outcome = "ok" THEN NoEntry
                                                ELSE loc[p].agent,
                                      !.httpOk = (outcome = "ok")])
    /\ UNCHANGED <<registry, envVars>>

\* the fallback `tmux capture-pane -t ${agent.tmuxSession}` answered
CheckCapture(p) ==
    /\ pc[p] = "check_capture"
    /\ \/ /\ loc[p].agent.tmuxSession \in DOMAIN tmux
          /\ Return(p, <<Step("tmux_capture", TRUE)>>,
                    [NoResult EXCEPT !.status = "api_unreachable_tmux_fallback",
                                     !.issueId = args[p].issueId,
                                     !.entry = loc[p].agent])
       \/ Return(p, <<Step("tmux_capture", FALSE)>>,
                 [NoResult EXCEPT !.status = "unreachable",
                                  !.issueId = args[p].issueId,
                                  !.error = loc[p].error,
                                  !.entry = loc[p].agent])
    /\ UNCHANGED <<registry, envVars>>

checkAgent(p) ==
    \/ CheckCall(p)
    \/ CheckStatus(p)
    \/ CheckDiff(p)
    \/ CheckMessages(p)
    \/ CheckCapture(p)

\* `resp.ok`: the status of the response, whatever its body holds; a
\* rejected fetch gives no response
RespOk(outcome) == outcome \in {"ok", "ok_text"}

\* the steps of a request whose body is not read: the request with resp.ok,
\* then the catch clause when fetch rejected
Request(name, outcome) ==
    IF outcome = "network_error"
    THEN <<Step(name, FALSE), Step("catch", TRUE)>>
    ELSE <<Step(name, RespOk(outcome))>>

\* faulty variant: any response counts as delivery
FollowupStatusOfAnyResponse(outcome) == "sent"

\* `status: resp.ok ? "sent" : "failed"`
FollowupStatus(outcome) == IF RespOk(outcome) THEN "sent" ELSE "failed"

FollowupArgs(id) == [NoArgs EXCEPT !.name = "followup", !.issueId = id]

\* `const agent = registry.get(issueId); if (!agent) return {status: "not_found"}`,
\* otherwise POST prompt_async is awaited
FollowupCall(p) ==
    \E id \in Tasks :
      /\ IF NotFound(RegistryGet(registry, id))
         THEN BeginReturn(p, FollowupArgs(id), [NoResult EXCEPT !.status = "not_found",
                                                                !.issueId = id])
         ELSE Begin(p, FollowupArgs(id), "followup_prompt",
                    [NoLoc EXCEPT !.agent = RegistryGet(registry, id)], FALSE)
      /\ UNCHANGED <<registry, envVars>>

\* POST prompt_async answered: resp.ok ? "sent" : "failed"; a rejected fetch
\* gives "error"
FollowupPrompt(p) ==
    /\ pc[p] = "followup_prompt"
    /\ \E outcome \in Answers(loc[p].agent.port) :
         Return(p, Request("post_prompt", outcome),
                IF outcome = "network_error"
                THEN ErrorResult(args[p].issueId, "fetch failed")
                ELSE [NoResult EXCEPT !.status = FollowupStatus(outcome),
                                      !.issueId = args[p].issueId,
                                      !.httpOk = RespOk(outcome)])
    /\ UNCHANGED <<registry, envVars>>

followupAgent(p) ==
    \/ FollowupCall(p)
    \/ FollowupPrompt(p)

\* faulty variant: the event is emitted for any response
AbortEmitsOnAnyResponse(outcome) == outcome # "network_error"

\* `if (resp.ok) await emitter.emit("agent:aborted", ...)`
AbortEmits(outcome) == RespOk(outcome)

AbortArgs(id) == [NoArgs EXCEPT !.name = "abort", !.issueId = id]

\* `const agent = registry.get(issueId); if (!agent) return {status: "not_found"}`,
\* otherwise POST abort is awaited
AbortCall(p) ==
    \E id \in Tasks :
      /\ IF NotFound(RegistryGet(registry, id))
         THEN BeginReturn(p, AbortArgs(id), [NoResult EXCEPT !.status = "not_found",
                                                             !.issueId = id])
         ELSE Begin(p, AbortArgs(id), "abort_post",
                    [NoLoc EXCEPT !.agent = RegistryGet(registry, id)], FALSE)
      /\ UNCHANGED <<registry, envVars>>

\* POST abort answered: on resp.ok emit("agent:aborted") is awaited, a
\* non-OK response returns "failed", a rejected fetch "error"
AbortPost(p) ==
    /\ pc[p] = "abort_post"
    /\ \E outcome \in Answers(loc[p].agent.port) :
         IF AbortEmits(outcome)
         THEN Await(p, "emit_aborted",
                    Request("post_abort", outcome) \o <<Step("emit:aborted", TRUE)>>, loc[p])
         ELSE Return(p, Request("post_abort", outcome),
                     IF outcome = "network_error"
                     THEN ErrorResult(args[p].issueId, "fetch failed")
                     ELSE [NoResult EXCEPT !.status = "failed",
                                           !.issueId = args[p].issueId])
    /\ UNCHANGED <<registry, envVars>>

\* the handlers of `aborted` have settled: `return {status: "aborted"}`
AbortEmitAborted(p) ==
    /\ pc[p] = "emit_aborted"
    /\ Return(p, <<>>, [NoResult EXCEPT !.status = "aborted",
                                        !.issueId = args[p].issueId,
                                        !.httpOk = TRUE])
    /\ UNCHANGED <<registry, envVars>>

abortAgent(p) ==
    \/ AbortCall(p)
    \/ AbortPost(p)
    \/ AbortEmitAborted(p)

(***************************************************************************)
(* listAgents                                                              *)
(***************************************************************************)
\* faulty variant: the liveness check left out
HasSessionAlways(name) == TRUE

\* `tmux has-session -t ${tmuxSession}` succeeds when the session exists
HasSession(name) == name \in DOMAIN tmux

ListArgs == [NoArgs EXCEPT !.name = "list"]

\* the issues the loop has pushed a record of
Listed(l) == {l.agents[i].issueId : i \in DOMAIN l.agents}

\* what the iterator returned by `this.agents.entries()` still yields: the
\* iterator reads the map itself, so an entry deleted before it is reached
\* is not yielded and an entry set meanwhile is
Entries(reg, l) == DOMAIN reg \ Listed(l)

\* the for loop over registry.entries() moves on: getSessionStatus of the
\* next entry is awaited, or after the last entry
\* `return JSON.stringify({agents, count: agents.length})`.  The order of
\* the entries is the order of their insertion, any order here
ListNext(p, steps, l) ==
    IF Entries(registry, l) = {}
    THEN Return(p, steps, [NoResult EXCEPT !.agents = l.agents])
    ELSE \E id \in Entries(registry, l) :
           Await(p, "list_status", steps, [l EXCEPT !.agent = registry[id]])

\* `agents.push({issueId, ..., reachable, tmuxAlive, sessionStatus, diffStat, ...})`
ListPush(l, stat) ==
    [l EXCEPT !.agents = Append(@, [issueId |-> l.agent.issueId,
                                    port |-> l.agent.port,
                                    reachable |-> l.sessionStatus # "unreachable",
                                    tmuxAlive |-> l.tmuxAlive,
                                    sessionStatus |-> l.sessionStatus,
                                    diffStat |-> stat])]

\* `for (const [issueId, agent] of registry.entries())` is entered; snapshot
\* keeps what the registry held at the call of entries() (history)
ListCall(p) ==
    /\ IF DOMAIN registry = {}
       THEN BeginReturn(p, ListArgs, NoResult)
       ELSE \E id \in DOMAIN registry :
              Begin(p, ListArgs, "list_status",
                    [NoLoc EXCEPT !.agent = registry[id], !.snapshot = DOMAIN registry], FALSE)
    /\ UNCHANGED <<registry, envVars>>

\* getSessionStatus answered (it never throws); `tmux has-session` is awaited
ListStatus(p) ==
    /\ pc[p] = "list_status"
    /\ \E outcome \in Answers(loc[p].agent.port), messages \in MessageLists :
         Await(p, "list_tmux", <<Step("get_messages", outcome = "ok")>>,
               [loc[p] EXCEPT !.sessionStatus = getSessionStatus(outcome, messages)])
    /\ UNCHANGED <<registry, envVars>>

\* `tmux has-session` answered (a failure leaves tmuxAlive false); the diff
\* stat is awaited if the entry has a worktree path, else the record is pushed
ListHasSession(p) ==
    /\ pc[p] = "list_tmux"
    /\ LET alive == HasSession(loc[p].agent.tmuxSession)
           l == [loc[p] EXCEPT !.tmuxAlive = alive] IN
         IF loc[p].agent.worktreePath # <<>>
         THEN Await(p, "list_diff", <<Step("tmux_has", alive)>>, l)
         ELSE ListNext(p, <<Step("tmux_has", alive)>>, ListPush(l, "null"))
    /\ UNCHANGED <<registry, envVars>>

\* getGitDiffStat answered: the stat, or null when empty or failed; the
\* record is pushed
ListDiff(p) ==
    /\ pc[p] = "list_diff"
    /\ \E stat \in {"stat", "null"} :
         ListNext(p, <<Step("git_diff", stat # "null")>>, ListPush(loc[p], stat))
    /\ UNCHANGED <<registry, envVars>>

listAgents(p) ==
    \/ ListCall(p)
    \/ ListStatus(p)
    \/ ListHasSession(p)
    \/ ListDiff(p)

(***************************************************************************)
(* reconstructRegistry and the startup of LbPlugin                         *)
(***************************************************************************)
\* updated_at of a record of `lb list --json`; "" is "no such field"
Stamps == {"", "u1"}

\* readings of the wall clock while reconstructing
ReconTimes == {"t1", "t2"}

\* a record of the list printed by `lb list --status in_progress --json`
IssueRecord(id, desc, updated) ==
    [id |-> id, description |-> desc, updated_at |-> updated]

\* desc.match(/Port:\s*(\d+)/): the digits read as a number, 0 for no match
portMatch(desc) == IF desc.kind = "meta" THEN desc.port ELSE 0

\* desc.match(/tmux:\s*(\S+)/): the characters up to the next blank, which
\* take in the comma that follows the name when the session part comes
\* after it; <<>> for no match
tmuxMatch(desc) ==
    IF desc.kind = "meta" /\ desc.tmux # <<>>
    THEN (IF desc.session # "" THEN desc.tmux \o <<",">> ELSE desc.tmux)
    ELSE <<>>

\* desc.match(/session:\s*(\S+)/): the characters up to the end of the
\* text (the ids of this model hold no blank and no comma); "" for no match
sessionMatch(desc) == IF desc.kind = "meta" THEN desc.session ELSE ""

\* .replace(/,$/g, "")
StripComma(t) ==
    IF t # <<>> /\ t[Len(t)] = "," THEN SubSeq(t, 1, Len(t) - 1) ELSE t

\* `if (portMatch && tmuxMatch && sessionMatch)`
AllMatch(desc) ==
    /\ portMatch(desc) # 0
    /\ tmuxMatch(desc) # <<>>
    /\ sessionMatch(desc) # ""

\* `desc.match` of a description that is no string throws a TypeError
Throws(issue) == issue.description.kind = "nonstring"

\* tmuxSession.replace(/_/g, "-")
branchOf(name) == [i \in DOMAIN name |-> IF name[i] = "_" THEN "-" ELSE name[i]]

\* the entry built from a record; `at` is the clock reading used when the
\* record has no updated_at
ReconstructedEntry(issue, at) ==
    LET desc == issue.description
        name == StripComma(tmuxMatch(desc)) IN
      AgentEntry(issue.id, portMatch(desc), sessionMatch(desc), name, branchOf(name),
                 <<>>, IF issue.updated_at # "" THEN issue.updated_at ELSE at)

\* faulty variant: an error inside the try block leaves the function
ReconstructEndRethrow(b, thrown) ==
    [b EXCEPT !.pc = IF thrown THEN "raised" ELSE "returned", !.issues = <<>>]

\* the function is left, by a return or through `catch {}`: either way the
\* promise resolves
ReconstructEnd(b, thrown) == [b EXCEPT !.pc = "returned", !.issues = <<>>]

\* what became of a record in the loop (history)
Seen(id, verdict) == [id |-> id, verdict |-> verdict]

\* the for loop from the record at the head of b.issues up to the next
\* await (tmux has-session of a record with all three fields), the end of
\* the list, or a throw
RECURSIVE Scan(_)
Scan(b) ==
    IF b.issues = <<>> THEN ReconstructEnd(b, FALSE)
    ELSE LET issue == Head(b.issues) IN
           IF Throws(issue)
             THEN ReconstructEnd([b EXCEPT !.seen = Append(@, Seen(issue.id, "threw"))], TRUE)
           ELSE IF AllMatch(issue.description)
             THEN [b EXCEPT !.pc = "has_session"]
           ELSE Scan([b EXCEPT !.issues = Tail(@),
                               !.seen = Append(@, Seen(issue.id, "no_meta"))])

\* LbPlugin calls reconstructRegistry: Bun.spawn throws (no `lb` to run),
\* or the race between the exit of the process and the 10 s timer is awaited
ReconstructSpawn ==
    /\ boot.pc = "start"
    /\ \/ boot' = ReconstructEnd([boot EXCEPT !.runs = @ + 1, !.seen = <<>>,
                                              !.outcome = "spawn_error",
                                              !.stuck = FALSE, !.killed = FALSE], TRUE)
       \/ boot' = [boot EXCEPT !.pc = "list", !.runs = @ + 1, !.seen = <<>>,
                               !.outcome = "", !.stuck = FALSE, !.killed = FALSE]
    /\ UNCHANGED <<registry, toolVars, envVars, poller, emitter>>

\* the issues the tracker holds as in progress
InProgress == {t \in Tasks : trackerStatus[t] = "in_progress"}

\* the lists `lb list` may print: the issues in progress in any order, each
\* record with or without updated_at
Listings ==
    {l \in UNION {[1..n -> {IssueRecord(t, trackerDesc[t], u) : t \in InProgress, u \in Stamps}]
                    : n \in {Cardinality(InProgress)}} :
       \A i, j \in DOMAIN l : i # j => l[i].id # l[j].id}

\* what the race resolves to: "" after the timer fired, "" or "[]" from a
\* tracker that printed nothing or no issue, text that JSON.parse rejects,
\* JSON that is no array, or the list
ListOutcomes == {"timeout", "empty", "garbage", "not_list", "ok"}

\* faulty variant: no timer in the race, only the exit of the process
\* resolves it
RaceOutcomesOfExit(stuck) == IF stuck THEN {} ELSE ListOutcomes \ {"timeout"}

\* `Promise.race([proc.exited.then(...), new Promise(... setTimeout(...,
\* 10000))])`: a process that never exits leaves the timer alone to resolve
\* the race
RaceOutcomes(stuck) == IF stuck THEN {"timeout"} ELSE ListOutcomes

\* the race resolved; `if (!issuesJson || issuesJson === "[]") return`,
\* JSON.parse, then the loop up to its first await.  A second run over
\* unchanged records reads the list the first run read
ReconstructList ==
    /\ boot.pc = "list"
    /\ \E outcome \in RaceOutcomes(boot.stuck) :
         LET b == [boot EXCEPT !.outcome = outcome, !.killed = (outcome = "timeout")] IN
           IF outcome \in {"timeout", "empty"} THEN boot' = ReconstructEnd(b, FALSE)
           ELSE IF outcome \in {"garbage", "not_list"} THEN boot' = ReconstructEnd(b, TRUE)
           ELSE \E l \in Listings :
                  /\ l # <<>>
                  /\ boot.runs > 1 /\ boot.listed # <<>> => l = boot.listed
                  /\ boot' = Scan([b EXCEPT !.issues = l, !.listed = l])
    /\ UNCHANGED <<registry, toolVars, envVars, poller, emitter>>

\* `tmux has-session` answered for the record at the head: registry.set of
\* the rebuilt entry, or `continue` on a dead session; then the loop goes on
ReconstructHasSession ==
    /\ boot.pc = "has_session"
    /\ LET issue == Head(boot.issues)
           name == StripComma(tmuxMatch(issue.description)) IN
         IF HasSession(name)
         THEN \E at \in ReconTimes :
                /\ registry' = RegistrySet(registry, issue.id, ReconstructedEntry(issue, at))
                /\ boot' = Scan([boot EXCEPT !.issues = Tail(@),
                                             !.seen = Append(@, Seen(issue.id, "inserted"))])
         ELSE /\ UNCHANGED registry
              /\ boot' = Scan([boot EXCEPT !.issues = Tail(@),
                                           !.seen = Append(@, Seen(issue.id, "dead"))])
    /\ UNCHANGED <<toolVars, envVars, poller, emitter>>

\* the `lb list` process spawned by this run never exits
ReconstructHang ==
    /\ boot.pc = "list"
    /\ ~boot.stuck
    /\ boot' = [boot EXCEPT !.stuck = TRUE]
    /\ UNCHANGED <<registry, toolVars, envVars, poller, emitter>>

\* reconstructRegistry has returned: LbPlugin returns the tools and hooks
PluginReady ==
    /\ boot.pc = "returned"
    /\ ~boot.ready
    /\ boot' = [boot EXCEPT !.ready = TRUE]
    /\ UNCHANGED <<registry, toolVars, envVars, poller, emitter>>

\* the coordinator process is restarted: a new plugin instance with an empty
\* registry and no call in flight; tracker, tmux and files stay as they are
Restart ==
    /\ ~boot.restarted
    /\ registry' = << >>
    /\ boot' = FreshBoot(TRUE, registry)
    /\ poller' = IdlePoller
    /\ pc' = [p \in Procs |-> "idle"]
    /\ args' = [p \in Procs |-> NoArgs]
    /\ loc' = [p \in Procs |-> NoLoc]
    /\ trace' = [p \in Procs |-> <<>>]
    /\ result' = [p \in Procs |-> NoResult]
    /\ rival' = [p \in Procs |-> {}]
    /\ prior' = [p \in Procs |-> "none"]
    /\ emitter' = [emitter EXCEPT !.run = [c \in Callers |-> NoRun]]
    /\ UNCHANGED envVars

\* reconstructRegistry applied once more to the registry it has filled, with
\* the tracker records and the tmux sessions as they were
ReconstructAgain ==
    /\ boot.pc = "returned"
    /\ boot.runs = 1
    /\ boot' = [boot EXCEPT !.pc = "start", !.first = registry, !.before = boot.outcome]
    /\ UNCHANGED <<registry, toolVars, envVars, poller, emitter>>

(***************************************************************************)
(* LifecycleEmitter.emit                                                   *)
(***************************************************************************)
\* faulty variant: a rejected promise of a handler leaves emit
EscapesWhenRejected(outcome) == outcome = "rejects"

\* `try { await handler(payload) } catch { }`: nothing a handler comes to
\* leaves emit
Escapes(outcome) == FALSE

\* faulty variant: emit looks the array up in the map at every turn of its
\* loop
HandlersOfLive(c) == Registered(emitter.run[c].event)

\* `list` of the emit of a caller: the array emit took from the map, with
\* what was pushed on it since
HandlersOf(c) ==
    IF emitter.run[c].detached THEN emitter.run[c].list
    ELSE emitter.handlers[emitter.run[c].event]

\* the for loop of emit calls the next handler of the list and awaits it
EmitHandler(c) ==
    /\ emitter.run[c].event # ""
    /\ ~emitter.run[c].raised
    /\ Len(emitter.run[c].invoked) < Len(HandlersOf(c))
    /\ LET i == Len(emitter.run[c].invoked) + 1
           outcome == HandlersOf(c)[i] IN
         emitter' = [emitter EXCEPT
                       !.run[c].invoked = Append(@, [handler |-> i, outcome |-> outcome]),
                       !.run[c].raised = Escapes(outcome)]
    /\ UNCHANGED <<registry, toolVars, hookVars, envVars>>

\* the for loop of emit is over: the promise of emit resolves
EmitSettled(c) ==
    /\ emitter.run[c].event # ""
    /\ ~emitter.run[c].raised
    /\ Len(emitter.run[c].invoked) = Len(HandlersOf(c))

(***************************************************************************)
(* pollBackgroundAgents, run by the event hook on session.idle             *)
(***************************************************************************)
\* what the fetch of /session/<id>/status and the read of its body come to:
\* a body with status "idle", a body with idle true, any other JSON body, a
\* success response whose body is no JSON, a non-success response, or no
\* response at all
PollOutcomes ==
    {"idle_status", "idle_flag", "busy", "ok_text", "http_error", "network_error"}

\* outcomes of a status request to a port: a worker must listen there for
\* an HTTP response to come back
PollAnswers(port) ==
    IF Served(port) THEN PollOutcomes ELSE {"network_error"}

\* faulty variant: a non-success response emits nothing
PollEventNetworkOnly(outcome) ==
    IF outcome \in {"network_error", "ok_text"} THEN "agent:errored"
    ELSE IF outcome \in {"idle_status", "idle_flag"} THEN "agent:finished"
    ELSE ""

\* the event one iteration emits: errored for `!resp.ok` and from the catch
\* block (fetch or resp.json() threw), finished for an idle status, none
\* otherwise
PollEvent(outcome) ==
    IF outcome \in {"http_error", "network_error", "ok_text"} THEN "agent:errored"
    ELSE IF outcome \in {"idle_status", "idle_flag"} THEN "agent:finished"
    ELSE ""

\* the entries the cycle has fetched the status of
Probed(pl) == {pl.probes[i].id : i \in DOMAIN pl.probes}

\* the for loop over registry.entries() moves on: the status of the next
\* entry is fetched, or after the last entry `lb sync` is run.  The order of
\* the entries is the order of their insertion, any order here
PollNext(pl) ==
    LET rest == DOMAIN registry \ Probed(pl) IN
      IF rest = {}
      THEN {[pl EXCEPT !.pc = "sync", !.cur = <<>>, !.port = 0]}
      ELSE {[pl EXCEPT !.pc = "fetch", !.cur = id, !.port = registry[id].port] : id \in rest}

\* the event hook receives session.idle and calls pollBackgroundAgents
PollStart ==
    /\ Ready(boot)
    /\ poller.pc = "idle"
    /\ poller' \in PollNext(IdlePoller)
    /\ UNCHANGED <<registry, toolVars, boot, envVars, emitter>>

\* session.idle is received again after a cycle has ended: the same call,
\* with what the cycle before has seen kept in past
PollAgain ==
    /\ Ready(boot)
    /\ poller.pc = "idle"
    /\ poller.probes # <<>>
    /\ poller' \in PollNext([IdlePoller EXCEPT !.past = poller.probes])
    /\ UNCHANGED <<registry, toolVars, boot, envVars, emitter>>

\* the fetch settled and, for a success response, its body was read: the
\* event of the iteration is emitted, or the loop moves on.  A fetch left
\* without answer settles (with an error) only once its worker is gone
PollProbe ==
    /\ poller.pc = "fetch"
    /\ poller.hung => ~Served(poller.port)
    /\ \E outcome \in PollAnswers(poller.port) :
         LET probed == [poller EXCEPT !.hung = FALSE,
                                      !.probes = Append(@, [id |-> poller.cur, outcome |-> outcome])]
             event == PollEvent(outcome) IN
           IF event # ""
           THEN /\ poller' = [probed EXCEPT !.pc = "emit",
                                            !.events = Append(@, [id |-> poller.cur,
                                                                  event |-> event])]
                /\ emitter' = [emitter EXCEPT !.run["poller"] = NewRun(event)]
           ELSE /\ poller' \in PollNext(probed)
                /\ UNCHANGED emitter
    /\ UNCHANGED <<registry, toolVars, boot, envVars>>

\* emitter.emit settled (the handlers were awaited, their errors swallowed)
PollEmitted ==
    /\ poller.pc = "emit"
    /\ poller' \in PollNext(poller)
    /\ emitter' = [emitter EXCEPT !.run["poller"] = NoRun]
    /\ UNCHANGED <<registry, toolVars, boot, envVars>>

\* faulty variant: the cycle drops the entries it reported as errored
PollSyncPruning ==
    /\ poller.pc = "sync"
    /\ poller' = [poller EXCEPT !.pc = "idle"]
    /\ registry' = [id \in DOMAIN registry \
                           {poller.events[i].id : i \in {j \in DOMAIN poller.events :
                                                          poller.events[j].event = "agent:errored"}}
                     |-> registry[id]]
    /\ UNCHANGED <<toolVars, boot, envVars, emitter>>

\* `lb sync` ended, well or not: the cycle is over
PollSync ==
    /\ poller.pc = "sync"
    /\ poller' = [poller EXCEPT !.pc = "idle"]
    /\ UNCHANGED <<registry, toolVars, boot, envVars, emitter>>

\* the worker accepted the connection and never answers: the fetch, which
\* has no timeout, never settles
PollHang ==
    /\ poller.pc = "fetch"
    /\ ~poller.hung
    /\ Served(poller.port)
    /\ poller' = [poller EXCEPT !.hung = TRUE]
    /\ UNCHANGED <<registry, toolVars, boot, envVars, emitter>>

pollBackgroundAgents ==
    \/ PollStart
    \/ PollProbe
    \/ PollEmitted
    \/ PollSync

\* the calls of the coordinator when it issues one tool call at a time
SeqProcs == {"c1"}

Next ==
    \/ \E p \in SeqProcs : dispatch(p)
    \/ \E p \in SeqProcs : cleanupAgent(p)
    \/ \E p \in SeqProcs : checkAgent(p)
    \/ \E p \in SeqProcs : followupAgent(p)
    \/ \E p \in SeqProcs : abortAgent(p)
    \/ \E p \in SeqProcs : listAgents(p)
    \/ \E n \in TmuxNames : WorkerListen(n)
    \/ \E n \in TmuxNames : TmuxVanish(n)

Spec == Init /\ [][Next]_vars

(***************************************************************************)
(* Two dispatch calls of the same issue, each made once, that may be in    *)
(* flight at the same time                                                 *)
(***************************************************************************)
RaceInputs == {DispatchArgs(<<"T", "-", "1">>, <<>>, skip) : skip \in BOOLEAN}

RaceDispatchCall(p) ==
    /\ pc[p] = "idle"
    /\ DispatchCallOn(p, RaceInputs)

NextRace ==
    \/ \E p \in Procs : RaceDispatchCall(p)
    \/ \E p \in Procs : dispatchSteps(p)
    \/ \E n \in TmuxNames : WorkerListen(n)
    \/ \E n \in TmuxNames : TmuxVanish(n)

SpecRace == Init /\ [][NextRace]_vars

(***************************************************************************)
(* reconstructRegistry on the tracker records and tmux sessions it may     *)
(* find at startup, applied once and then once more                        *)
(***************************************************************************)
\* a worker that listens on its port
LiveWorker(id, port) == [log |-> id, port |-> port, linked |-> TRUE, sessions |-> {}]

\* the port of the worker of an issue in the states drawn below
PortOf(id) == IF id[3] = "1" THEN 4096 ELSE 4097

\* tmux with the workers of the issues of S alive
TmuxWith(S) ==
    [n \in {tmuxSession(t) : t \in S} |->
       LET id == CHOOSE t \in S : tmuxSession(t) = n IN LiveWorker(id, PortOf(id))]

\* descriptions an issue in progress may carry: none, free text, no
\* string, the metadata of a dispatch, or metadata with one field missing
ReconDescs(id) ==
    LET meta == MetaDesc(PortOf(id), tmuxSession(id), "ses_a") IN
      {EmptyDesc, TextDesc, NonStringDesc, meta,
       [meta EXCEPT !.port = 0], [meta EXCEPT !.tmux = <<>>], [meta EXCEPT !.session = ""]}

InitReconstruct ==
    /\ registry = << >>
    /\ boot = FreshBoot(FALSE, << >>)
    /\ poller = IdlePoller
    /\ InitCalls
    /\ emitter = PluginEmitter
    /\ trackerStatus \in [Tasks -> {"in_progress", "todo_refined"}]
    /\ trackerDesc \in {d \in [Tasks -> UNION {ReconDescs(t) : t \in Tasks}] :
                          \A t \in Tasks : d[t] \in ReconDescs(t)}
    /\ worktrees = {}
    /\ \E S \in SUBSET Tasks : tmux = TmuxWith(S)
    /\ logs = [t \in Tasks |-> LogAbsent]

NextReconstruct ==
    \/ ReconstructSpawn
    \/ ReconstructList
    \/ ReconstructHasSession
    \/ PluginReady
    \/ ReconstructAgain

SpecReconstruct == InitReconstruct /\ [][NextReconstruct]_vars

(***************************************************************************)
(* The startup with a list query that may never exit.  The timer of the    *)
(* race fires whatever the process does and `tmux has-session` answers,    *)
(* hence the fairness of the steps of reconstructRegistry.                 *)
(***************************************************************************)
NextBoot ==
    \/ ReconstructSpawn
    \/ ReconstructHang
    \/ ReconstructList
    \/ ReconstructHasSession
    \/ PluginReady

SpecBoot ==
    /\ InitReconstruct
    /\ [][NextBoot]_vars
    /\ WF_vars(ReconstructList)
    /\ WF_vars(ReconstructHasSession)

(***************************************************************************)
(* Startup, dispatches and one restart of the coordinator                  *)
(***************************************************************************)
InitStartup ==
    /\ registry = << >>
    /\ boot = FreshBoot(FALSE, << >>)
    /\ poller = IdlePoller
    /\ InitCalls
    /\ emitter = PluginEmitter
    /\ trackerStatus = [t \in Tasks |-> "todo_refined"]
    /\ trackerDesc = [t \in Tasks |-> IF t[3] = "1" THEN TextDesc ELSE EmptyDesc]
    /\ worktrees = {}
    /\ tmux = << >>
    /\ logs = [t \in Tasks |-> LogAbsent]

\* the dispatches made in this scenario
StartupInputs == {DispatchArgs(<<"T", "-", "1">>, <<>>, skip) : skip \in BOOLEAN}

StartupDispatchCall(p) == DispatchCallOn(p, StartupInputs)

NextStartup ==
    \/ ReconstructSpawn
    \/ ReconstructList
    \/ ReconstructHasSession
    \/ PluginReady
    \/ Restart
    \/ \E p \in SeqProcs : StartupDispatchCall(p)
    \/ \E p \in SeqProcs : dispatchSteps(p)
    \/ \E p \in SeqProcs : followupAgent(p)
    \/ \E n \in TmuxNames : WorkerListen(n)
    \/ \E n \in TmuxNames : TmuxVanish(n)

SpecStartup == InitStartup /\ [][NextStartup]_vars

(***************************************************************************)
(* A plugin instance from its start, and the instance after a restart, next *)
(* to a task in progress whose worker is alive: reconstruction, then tool   *)
(* calls about the entries it rebuilt and poll cycles.  A rebuilt entry has  *)
(* no worktree path, so checkAgent never asks git for a diff here.          *)
(***************************************************************************)
InitPlugin ==
    /\ registry = << >>
    /\ boot = FreshBoot(FALSE, << >>)
    /\ poller = IdlePoller
    /\ InitCalls
    /\ emitter = PluginEmitter
    /\ trackerStatus = [t \in Tasks |-> IF t[3] = "2" THEN "in_progress" ELSE "todo_refined"]
    /\ trackerDesc = [t \in Tasks |-> IF t[3] = "2"
                                       THEN MetaDesc(PortOf(t), tmuxSession(t), "ses_a")
                                       ELSE TextDesc]
    /\ worktrees = {}
    /\ tmux = TmuxWith({<<"T", "-", "2">>})
    /\ logs = [t \in Tasks |-> IF t[3] = "2" THEN LogFile(PortOf(t)) ELSE LogAbsent]

NextPlugin ==
    \/ ReconstructSpawn
    \/ ReconstructList
    \/ ReconstructHasSession
    \/ PluginReady
    \/ Restart
    \/ pollBackgroundAgents
    \/ \E p \in SeqProcs : cleanupAgent(p)
    \/ \E p \in SeqProcs : CheckCall(p)
    \/ \E p \in SeqProcs : CheckStatus(p)
    \/ \E p \in SeqProcs : CheckMessages(p)
    \/ \E p \in SeqProcs : CheckCapture(p)
    \/ \E p \in SeqProcs : followupAgent(p)
    \/ \E p \in SeqProcs : abortAgent(p)
    \/ \E n \in TmuxNames : TmuxVanish(n)

SpecPlugin == InitPlugin /\ [][NextPlugin]_vars

(***************************************************************************)
(* Poll cycles over a registry that holds up to two entries, the workers of *)
(* which are alive or gone.  A settled promise resumes the function that    *)
(* awaits it, hence the fairness of the steps of the cycle.                 *)
(***************************************************************************)
\* the entry of an issue dispatched without a worktree
PolledEntry(id) ==
    AgentEntry(id, PortOf(id), "ses_a", tmuxSession(id), NoWorktree, RepoRoot, "t1")

InitPoll ==
    /\ \E S \in SUBSET Tasks : registry = [t \in S |-> PolledEntry(t)]
    /\ boot = ReadyBoot
    /\ poller = IdlePoller
    /\ InitCalls
    /\ emitter = PluginEmitter
    /\ trackerStatus = [t \in Tasks |-> IF t \in DOMAIN registry THEN "in_progress" ELSE "todo_refined"]
    /\ trackerDesc = [t \in Tasks |-> IF t \in DOMAIN registry
                                       THEN MetaDesc(PortOf(t), tmuxSession(t), "ses_a")
                                       ELSE TextDesc]
    /\ worktrees = {}
    /\ \E S \in SUBSET DOMAIN registry : tmux = TmuxWith(S)
    /\ logs = [t \in Tasks |-> IF t \in DOMAIN registry THEN LogFile(PortOf(t)) ELSE LogAbsent]

NextPoll ==
    \/ pollBackgroundAgents
    \/ PollAgain
    \/ PollHang
    \/ \E n \in TmuxNames : TmuxVanish(n)

SpecPoll ==
    /\ InitPoll
    /\ [][NextPoll]_vars
    /\ WF_vars(PollProbe)
    /\ WF_vars(PollEmitted)
    /\ WF_vars(PollSync)

(***************************************************************************)
(* One listAgents call of the coordinator while another of its tool calls, *)
(* a cleanup or a dispatch, is in flight: the for loop over                *)
(* registry.entries() is suspended at each await of its body.              *)
(***************************************************************************)
InitIterate ==
    /\ InitPoll
    /\ tmux = TmuxWith(DOMAIN registry)

ListOnce(p) ==
    /\ pc[p] = "idle"
    /\ ListCall(p)

CleanupOnce(p) ==
    /\ pc[p] = "idle"
    /\ CleanupCall(p)

NextIterate ==
    \/ ListOnce("c1")
    \/ ListStatus("c1")
    \/ ListHasSession("c1")
    \/ ListDiff("c1")
    \/ CleanupOnce("c2")
    \/ CleanupKillTmux("c2")
    \/ CleanupSetStatus("c2")
    \/ CleanupEmitTerminal("c2")
    \/ CleanupSync("c2")
    \/ CleanupRmLog("c2")
    \/ RaceDispatchCall("c2")
    \/ dispatchSteps("c2")
    \/ \E n \in TmuxNames : WorkerListen(n)

SpecIterate == InitIterate /\ [][NextIterate]_vars

(***************************************************************************)
(* The life of one registered entry: the coordinator checks, follows up,   *)
(* aborts, lists, dispatches the issue again and at some point cleans it   *)
(* up, one tool call at a time, while poll cycles run.                     *)
(***************************************************************************)
InitFrame ==
    /\ InitIterate
    /\ DOMAIN registry = {<<"T", "-", "1">>}

\* a dispatch of an issue that has its entry
DuplicateDispatch(p) ==
    /\ Dispatchable \subseteq DOMAIN registry
    /\ DispatchCall(p)

NextFrame ==
    \/ \E p \in SeqProcs : DuplicateDispatch(p)
    \/ \E p \in SeqProcs : checkAgent(p)
    \/ \E p \in SeqProcs : followupAgent(p)
    \/ \E p \in SeqProcs : abortAgent(p)
    \/ \E p \in SeqProcs : listAgents(p)
    \/ \E p \in SeqProcs : CleanupCall(p)
    \/ \E p \in SeqProcs : CleanupKillTmux(p)
    \/ \E p \in SeqProcs : CleanupSetStatus(p)
    \/ \E p \in SeqProcs : CleanupEmitTerminal(p)
    \/ \E p \in SeqProcs : CleanupSync(p)
    \/ \E p \in SeqProcs : CleanupRmLog(p)
    \/ pollBackgroundAgents
    \/ \E n \in TmuxNames : TmuxVanish(n)

SpecFrame == InitFrame /\ [][NextFrame]_vars

(***************************************************************************)
(* Cleanup calls of the coordinator in parallel, one per call slot, for    *)
(* one registered entry.                                                   *)
(***************************************************************************)
NextCleanups ==
    \/ \E p \in Procs : CleanupOnce(p)
    \/ \E p \in Procs : CleanupKillTmux(p)
    \/ \E p \in Procs : CleanupSetStatus(p)
    \/ \E p \in Procs : CleanupEmitTerminal(p)
    \/ \E p \in Procs : CleanupSync(p)
    \/ \E p \in Procs : CleanupRmLog(p)

SpecCleanups == InitFrame /\ [][NextCleanups]_vars

(***************************************************************************)
(* The log file of one issue under two calls in parallel, one per call     *)
(* slot: a cleanup of the registered issue with a dispatch that starts     *)
(* once the entry is gone, or two dispatches that both pass the guard.     *)
(***************************************************************************)
NextLog ==
    \/ \E p \in Procs : CleanupOnce(p)
    \/ \E p \in Procs : CleanupKillTmux(p)
    \/ \E p \in Procs : CleanupSetStatus(p)
    \/ \E p \in Procs : CleanupEmitTerminal(p)
    \/ \E p \in Procs : CleanupSync(p)
    \/ \E p \in Procs : CleanupRmLog(p)
    \/ \E p \in Procs : RaceDispatchCall(p)
    \/ \E p \in Procs : dispatchSteps(p)
    \/ \E n \in TmuxNames : WorkerListen(n)

SpecLog == InitIterate /\ [][NextLog]_vars

(***************************************************************************)
(* One dispatch with collaborators that may stop responding.  A settled    *)
(* promise resumes the function that awaits it, hence the fairness of the  *)
(* steps of a dispatch that is not left without answer; sleep(500) of      *)
(* waitForPort is a timer and always settles.                              *)
(***************************************************************************)
\* the awaits of dispatch on the tracker CLI, on an HTTP request and on the
\* handlers of an event: `await $\`lb ...\``, `await fetch(...)` and
\* `await emitter.emit(...)` are made without a deadline
HangPoints ==
    {"show_json", "show_plain", "claim", "wt_create", "write_meta",
     "post_session", "post_prompt", "emit_claimed", "emit_running"}

\* the collaborator awaited by the dispatch of p never answers
DispatchHang(p) ==
    /\ args[p].name = "dispatch"
    /\ pc[p] \in HangPoints
    /\ pc[p] \in {"post_session", "post_prompt"} => Served(loc[p].port)
    /\ ~loc[p].hung
    /\ loc' = [loc EXCEPT ![p].hung = TRUE]
    /\ UNCHANGED <<registry, pc, args, trace, result, rival, prior, hookVars, envVars, emitter>>

\* the awaited promise settled and the dispatch goes on
DispatchResume(p) ==
    /\ ~loc[p].hung
    /\ dispatchSteps(p)

NextLive ==
    \/ \E p \in SeqProcs : RaceDispatchCall(p)
    \/ \E p \in SeqProcs : DispatchResume(p)
    \/ \E p \in SeqProcs : DispatchHang(p)
    \/ \E n \in TmuxNames : WorkerListen(n)
    \/ \E n \in TmuxNames : TmuxVanish(n)

SpecLive ==
    /\ Init
    /\ [][NextLive]_vars
    /\ \A p \in SeqProcs : WF_vars(DispatchResume(p))

(***************************************************************************)
(* A worker outlives its coordinator: dispatches, then a restart of the     *)
(* coordinator, whose new instance rebuilds the registry and cleans up.     *)
(***************************************************************************)
DispatchBeforeRestart(p) ==
    /\ ~boot.restarted
    /\ DispatchCall(p)

CleanupAfterRestart(p) ==
    /\ boot.restarted
    /\ CleanupCall(p)

NextAdopt ==
    \/ ReconstructSpawn
    \/ ReconstructList
    \/ ReconstructHasSession
    \/ PluginReady
    \/ Restart
    \/ \E p \in SeqProcs : DispatchBeforeRestart(p)
    \/ \E p \in SeqProcs : dispatchSteps(p)
    \/ \E p \in SeqProcs : CleanupAfterRestart(p)
    \/ \E p \in SeqProcs : CleanupKillTmux(p)
    \/ \E p \in SeqProcs : CleanupWorktreeDelete(p)
    \/ \E p \in SeqProcs : CleanupSetStatus(p)
    \/ \E p \in SeqProcs : CleanupEmitTerminal(p)
    \/ \E p \in SeqProcs : CleanupSync(p)
    \/ \E p \in SeqProcs : CleanupRmLog(p)
    \/ \E n \in TmuxNames : WorkerListen(n)

SpecAdopt == InitStartup /\ [][NextAdopt]_vars

(***************************************************************************)
(* An issue is dispatched, cleaned up and dispatched again, one call at a  *)
(* time; then the coordinator restarts and rebuilds the registry.          *)
(***************************************************************************)
CleanupBeforeRestart(p) ==
    /\ ~boot.restarted
    /\ CleanupCall(p)

StartupDispatchBeforeRestart(p) ==
    /\ ~boot.restarted
    /\ StartupDispatchCall(p)

NextStale ==
    \/ ReconstructSpawn
    \/ ReconstructList
    \/ ReconstructHasSession
    \/ PluginReady
    \/ Restart
    \/ \E p \in SeqProcs : StartupDispatchBeforeRestart(p)
    \/ \E p \in SeqProcs : dispatchSteps(p)
    \/ \E p \in SeqProcs : CleanupBeforeRestart(p)
    \/ \E p \in SeqProcs : CleanupKillTmux(p)
    \/ \E p \in SeqProcs : CleanupWorktreeDelete(p)
    \/ \E p \in SeqProcs : CleanupSetStatus(p)
    \/ \E p \in SeqProcs : CleanupEmitTerminal(p)
    \/ \E p \in SeqProcs : CleanupSync(p)
    \/ \E p \in SeqProcs : CleanupRmLog(p)
    \/ \E n \in TmuxNames : WorkerListen(n)

SpecStale == InitStartup /\ [][NextStale]_vars

(***************************************************************************)
(* The two name derivations on their own: dispatch makes the tmux session  *)
(* name of an issue id, reconstructRegistry makes a branch label of a tmux *)
(* session name.  The ids are all the texts of up to MaxIdLen characters   *)
(* over letters, digits, the hyphen and the underscore.                    *)
(***************************************************************************)
MaxIdLen == 3

IdChars == {"T", "1", "-", "_"}

IssueIds == UNION {[1..n -> IdChars] : n \in 1..MaxIdLen}

NameArgs(issueId) == [NoArgs EXCEPT !.name = "names", !.issueId = issueId]

InitNames ==
    /\ registry = << >>
    /\ boot = ReadyBoot
    /\ poller = IdlePoller
    /\ pc = [p \in Procs |-> "idle"]
    /\ \E id \in IssueIds : args = [p \in Procs |-> NameArgs(id)]
    /\ loc = [p \in Procs |-> NoLoc]
    /\ trace = [p \in Procs |-> <<>>]
    /\ result = [p \in Procs |-> NoResult]
    /\ rival = [p \in Procs |-> {}]
    /\ prior = [p \in Procs |-> "none"]
    /\ emitter = PluginEmitter
    /\ trackerStatus = [t \in Tasks |-> "in_progress"]
    /\ trackerDesc = [t \in Tasks |-> EmptyDesc]
    /\ worktrees = {}
    /\ tmux = << >>
    /\ logs = [t \in Tasks |-> LogAbsent]

\* dispatch: const tmuxSession = issueId.replace(/-/g, "_"), kept in the entry
DeriveTmuxSession(p) ==
    /\ pc[p] = "idle"
    /\ args[p].name = "names"
    /\ pc' = [pc EXCEPT ![p] = "named"]
    /\ loc' = [loc EXCEPT ![p].agent.issueId = args[p].issueId,
                          ![p].agent.tmuxSession = tmuxSession(args[p].issueId)]
    /\ UNCHANGED <<registry, args, trace, result, rival, prior, hookVars, envVars, emitter>>

\* reconstructRegistry: const branch = tmuxSession.replace(/_/g, "-")
DeriveBranch(p) ==
    /\ pc[p] = "named"
    /\ pc' = [pc EXCEPT ![p] = "returned"]
    /\ loc' = [loc EXCEPT ![p].agent.branch = branchOf(loc[p].agent.tmuxSession)]
    /\ UNCHANGED <<registry, args, trace, result, rival, prior, hookVars, envVars, emitter>>

NextNames ==
    \/ \E p \in SeqProcs : DeriveTmuxSession(p)
    \/ \E p \in SeqProcs : DeriveBranch(p)

SpecNames == InitNames /\ [][NextNames]_vars

(***************************************************************************)
(* The metadata text on its own, character by character: dispatch writes   *)
(* `Port: ${port}, tmux: ${tmuxSession}, session: ${sessionId}` into the   *)
(* description, somebody may edit the description around the fragment or   *)
(* widen the blanks in it, and reconstructRegistry reads the three values  *)
(* back with its three patterns.                                           *)
(***************************************************************************)
\* \s
Spaces == {" "}

\* \d, in the order of their values
DigitChars == <<"0", "1", "2", "3", "4", "5", "6", "7", "8", "9">>

Digits == {DigitChars[i] : i \in DOMAIN DigitChars}

\* `${n}` of a non-negative integer: its decimal digits
RECURSIVE NumberText(_)
NumberText(n) ==
    IF n < 10 THEN <<DigitChars[n + 1]>>
    ELSE NumberText(n \div 10) \o <<DigitChars[(n % 10) + 1]>>

\* parseInt(digits, 10) of a run of digits
RECURSIVE parseInt(_)
parseInt(digits) ==
    IF digits = <<>> THEN 0
    ELSE LET last == digits[Len(digits)]
             v == (CHOOSE i \in DOMAIN DigitChars : DigitChars[i] = last) - 1
         IN parseInt(SubSeq(digits, 1, Len(digits) - 1)) * 10 + v

PortLabel == <<"P", "o", "r", "t", ":">>
TmuxLabel == <<"t", "m", "u", "x", ":">>
SessionLabel == <<"s", "e", "s", "s", "i", "o", "n", ":">>

\* the characters of a text that are not \s
NonSpaces(text) == {text[i] : i \in DOMAIN text} \ Spaces

\* the position after the blanks that start at position i
SkipSpaces(text, i) ==
    CHOOSE j \in i..(Len(text) + 1) :
        /\ \A k \in i..(j - 1) : text[k] \in Spaces
        /\ j = Len(text) + 1 \/ text[j] \notin Spaces

\* the last position of the run of characters of the class that starts at j
RunEnd(text, j, class) ==
    CHOOSE e \in j..Len(text) :
        /\ \A k \in j..e : text[k] \in class
        /\ e = Len(text) \/ text[e + 1] \notin class

\* /label\s*(class+)/ matches at position i
MatchesAt(text, label, class, i) ==
    /\ i + Len(label) - 1 <= Len(text)
    /\ SubSeq(text, i, i + Len(label) - 1) = label
    /\ LET j == SkipSpaces(text, i + Len(label))
       IN j <= Len(text) /\ text[j] \in class

\* text.match(/label\s*(class+)/): group 1 of the leftmost match, <<>> for
\* no match
Capture(text, label, class) ==
    IF \E i \in DOMAIN text : MatchesAt(text, label, class, i)
    THEN LET i == CHOOSE m \in DOMAIN text :
                      /\ MatchesAt(text, label, class, m)
                      /\ \A k \in 1..(m - 1) : ~MatchesAt(text, label, class, k)
             j == SkipSpaces(text, i + Len(label))
         IN SubSeq(text, j, RunEnd(text, j, class))
    ELSE <<>>

\* desc.match(/Port:\s*(\d+)/), desc.match(/tmux:\s*(\S+)/) and
\* desc.match(/session:\s*(\S+)/) on the characters of the description
PortCapture(text) == Capture(text, PortLabel, Digits)
TmuxCapture(text) == Capture(text, TmuxLabel, NonSpaces(text))
SessionCapture(text) == Capture(text, SessionLabel, NonSpaces(text))

\* the fragment with the blanks `gap` after every colon and comma
Fragment(port, name, sessionId, gap) ==
    PortLabel \o gap \o NumberText(port) \o <<",">> \o gap
      \o TmuxLabel \o gap \o name \o <<",">> \o gap
      \o SessionLabel \o gap \o sessionId

\* `Port: ${port}, tmux: ${tmuxSession}, session: ${sessionId}`
meta(port, name, sessionId) == Fragment(port, name, sessionId, <<" ">>)

\* session ids as texts
SessionTexts == {<<"s", "e", "s", "_", "a">>, <<"s", "e", "s", "_", "b">>}

\* blanks between the fields of an edited fragment
Gaps == {<<" ">>, <<" ", " ">>}

\* what an edited description holds before and after the fragment
Preambles == {<<>>, <<"n", "o", "t", "e", "s", " ">>, <<"o", "l", "d", " ", "s", "e", "s", "s", "i", "o", "n", ":", " ", "x", " ">>}
Trailers == {<<>>, <<" ", "o", "k">>, <<".">>}

MetaArgs(issueId) == [NoArgs EXCEPT !.name = "meta", !.issueId = issueId]

InitMeta ==
    /\ registry = << >>
    /\ boot = ReadyBoot
    /\ poller = IdlePoller
    /\ pc = [p \in Procs |-> "idle"]
    /\ \E id \in Tasks : args = [p \in Procs |-> MetaArgs(id)]
    /\ \E port \in Ports, sid \in SessionTexts :
           loc = [p \in Procs |-> [NoLoc EXCEPT !.port = port, !.sessionId = sid]]
    /\ trace = [p \in Procs |-> <<>>]
    /\ result = [p \in Procs |-> NoResult]
    /\ rival = [p \in Procs |-> {}]
    /\ prior = [p \in Procs |-> "none"]
    /\ emitter = PluginEmitter
    /\ trackerStatus = [t \in Tasks |-> "in_progress"]
    /\ trackerDesc = [t \in Tasks |-> <<>>]
    /\ worktrees = {}
    /\ tmux = << >>
    /\ logs = [t \in Tasks |-> LogAbsent]

\* dispatch: lb update <issueId> -d <meta>
WriteMeta(p) ==
    /\ pc[p] = "idle"
    /\ args[p].name = "meta"
    /\ pc' = [pc EXCEPT ![p] = "written"]
    /\ trackerDesc' = [trackerDesc EXCEPT ![args[p].issueId] =
           meta(loc[p].port, tmuxSession(args[p].issueId), loc[p].sessionId)]
    /\ UNCHANGED <<registry, args, loc, trace, result, rival, prior, hookVars,
                   trackerStatus, worktrees, tmux, logs, emitter>>

\* the description is edited: text around the fragment, wider blanks in it
EditDescription(p) ==
    /\ pc[p] = "written"
    /\ \E pre \in Preambles, gap \in Gaps, post \in Trailers :
           trackerDesc' = [trackerDesc EXCEPT ![args[p].issueId] =
               pre \o Fragment(loc[p].port, tmuxSession(args[p].issueId),
                               loc[p].sessionId, gap) \o post]
    /\ UNCHANGED <<registry, toolVars, hookVars, trackerStatus, worktrees, tmux,
                   logs, emitter>>

\* reconstructRegistry: the three matches and, if all three match, the
\* values of the entry
ParseMeta(p) ==
    /\ pc[p] = "written"
    /\ pc' = [pc EXCEPT ![p] = "returned"]
    /\ LET desc == trackerDesc[args[p].issueId]
           portM == PortCapture(desc)
           tmuxM == TmuxCapture(desc)
           sessionM == SessionCapture(desc)
       IN IF portM # <<>> /\ tmuxM # <<>> /\ sessionM # <<>>
          THEN loc' = [loc EXCEPT ![p].agent.port = parseInt(portM),
                                  ![p].agent.tmuxSession = StripComma(tmuxM),
                                  ![p].agent.sessionId = StripComma(sessionM)]
          ELSE loc' = loc
    /\ UNCHANGED <<registry, args, trace, result, rival, prior, hookVars, envVars, emitter>>

NextMeta ==
    \/ \E p \in SeqProcs : WriteMeta(p)
    \/ \E p \in SeqProcs : EditDescription(p)
    \/ \E p \in SeqProcs : ParseMeta(p)

SpecMeta == InitMeta /\ [][NextMeta]_vars

(***************************************************************************)
(* The emits of abort, cleanup and a poll cycle about one registered task,  *)
(* with up to two handlers registered for every kind of event, each of      *)
(* which returns, throws or rejects.  The caller goes on when emit settles. *)
(***************************************************************************)
HandlerLists ==
    {<<>>} \cup {<<a>> : a \in Behaviours} \cup {<<a, b>> : a, b \in Behaviours}

InitEmit ==
    /\ registry = [t \in {<<"T", "-", "1">>} |-> PolledEntry(t)]
    /\ boot = ReadyBoot
    /\ poller = IdlePoller
    /\ InitCalls
    /\ \E list \in HandlerLists :
         emitter = [PluginEmitter EXCEPT !.handlers = [k \in EventKinds |-> list]]
    /\ trackerStatus = [t \in Tasks |-> IF t \in DOMAIN registry THEN "in_progress" ELSE "todo_refined"]
    /\ trackerDesc = [t \in Tasks |-> IF t \in DOMAIN registry
                                       THEN MetaDesc(PortOf(t), tmuxSession(t), "ses_a")
                                       ELSE TextDesc]
    /\ worktrees = {}
    /\ tmux = TmuxWith(DOMAIN registry)
    /\ logs = [t \in Tasks |-> IF t \in DOMAIN registry THEN LogFile(PortOf(t)) ELSE LogAbsent]

NextEmit ==
    \/ \E c \in Callers : EmitHandler(c)
    \/ \E p \in SeqProcs : AbortCall(p)
    \/ \E p \in SeqProcs : AbortPost(p)
    \/ \E p \in SeqProcs : EmitSettled(p) /\ AbortEmitAborted(p)
    \/ \E p \in SeqProcs : CleanupCall(p)
    \/ \E p \in SeqProcs : CleanupKillTmux(p)
    \/ \E p \in SeqProcs : CleanupSetStatus(p)
    \/ \E p \in SeqProcs : EmitSettled(p) /\ CleanupEmitTerminal(p)
    \/ \E p \in SeqProcs : CleanupSync(p)
    \/ \E p \in SeqProcs : CleanupRmLog(p)
    \/ PollStart
    \/ PollProbe
    \/ EmitSettled("poller") /\ PollEmitted
    \/ PollSync

SpecEmit == InitEmit /\ [][NextEmit]_vars

(***************************************************************************)
(* LifecycleEmitter on its own: handlers are registered and removed while  *)
(* events are emitted.  A handler is known by what it does, so that the    *)
(* three Behaviours are three handler functions; the arrays of the map     *)
(* hold up to two of them.                                                 *)
(***************************************************************************)
\* the kinds of event used on the bus
BusKinds == {"agent:claimed", "agent:running"}

\* those who emit
BusCallers == {"c1"}

\* faulty variant: off empties the array
FilteredAll(list, handler) == <<>>

\* list.filter((h) => h !== handler)
Filtered(list, handler) == SelectSeq(list, LAMBDA h : h # handler)

\* new LifecycleEmitter()
InitBus ==
    /\ registry = << >>
    /\ boot = ReadyBoot
    /\ poller = IdlePoller
    /\ InitCalls
    /\ emitter = [handlers |-> << >>, run |-> [c \in Callers |-> NoRun], last |-> NoCall]
    /\ trackerStatus = [t \in Tasks |-> "todo_refined"]
    /\ trackerDesc = [t \in Tasks |-> EmptyDesc]
    /\ worktrees = {}
    /\ tmux = << >>
    /\ logs = [t \in Tasks |-> LogAbsent]

\* on(event, handler): the handler is pushed on the array of the event, which
\* the emits that took this array go through
on(event, handler) ==
    /\ Append(Registered(event), handler) \in HandlerLists
    /\ \A c \in Callers :
         emitter.run[c].event = event => Append(emitter.run[c].added, handler) \in HandlerLists
    /\ emitter' =
         [handlers |-> [k \in (DOMAIN emitter.handlers) \cup {event} |->
                          IF k = event THEN Append(Registered(event), handler)
                          ELSE emitter.handlers[k]],
          run |-> [c \in Callers |->
                     IF emitter.run[c].event = event
                     THEN [emitter.run[c] EXCEPT !.added = Append(@, handler)]
                     ELSE emitter.run[c]],
          last |-> [op |-> "on", event |-> event, handler |-> handler]]
    /\ UNCHANGED <<registry, toolVars, hookVars, envVars>>

\* off(event, handler): nothing without an array; else a filtered copy is
\* stored, and the emits that took the array keep it
off(event, handler) ==
    /\ emitter' =
         [handlers |-> [k \in DOMAIN emitter.handlers |->
                          IF k = event THEN Filtered(emitter.handlers[k], handler)
                          ELSE emitter.handlers[k]],
          run |-> [c \in Callers |->
                     IF /\ emitter.run[c].event = event
                        /\ ~emitter.run[c].detached
                        /\ event \in DOMAIN emitter.handlers
                     THEN [emitter.run[c] EXCEPT !.detached = TRUE,
                                                 !.list = emitter.handlers[event]]
                     ELSE emitter.run[c]],
          last |-> [op |-> "off", event |-> event, handler |-> handler]]
    /\ UNCHANGED <<registry, toolVars, hookVars, envVars>>

\* emit(event, payload) up to the first turn of its loop
emit(c, event) ==
    /\ emitter.run[c].event = ""
    /\ emitter' = [emitter EXCEPT !.run[c] = NewRun(event)]
    /\ UNCHANGED <<registry, toolVars, hookVars, envVars>>

\* the promise of emit resolves
EmitReturn(c) ==
    /\ EmitSettled(c)
    /\ emitter' = [emitter EXCEPT !.run[c] = NoRun]
    /\ UNCHANGED <<registry, toolVars, hookVars, envVars>>

NextBus ==
    \/ \E k \in BusKinds, h \in Behaviours : on(k, h)
    \/ \E k \in BusKinds, h \in Behaviours : off(k, h)
    \/ \E c \in BusCallers, k \in BusKinds : emit(c, k)
    \/ \E c \in BusCallers : EmitHandler(c)
    \/ \E c \in BusCallers : EmitReturn(c)

SpecBus == InitBus /\ [][NextBus]_vars

(***************************************************************************)
(* Properties                                                              *)
(***************************************************************************)
Returned(p, name) == pc[p] = "returned" /\ args[p].name = name

\* a call of operation `name` by p starts in this step
Starts(p, name) ==
    /\ pc[p] \in {"idle", "returned"}
    /\ args'[p].name = name
    /\ <<pc[p], args[p], result[p], trace[p]>> # <<pc'[p], args'[p], result'[p], trace'[p]>>

\* C1: when dispatch returns for an issue that was not registered at the
\* call, status "dispatched" implies that the registry holds exactly one
\* entry for the issue, equal to the returned one, and status "error"
\* implies that it holds none.
C1_DispatchOutcomeMatchesRegistry ==
    \A p \in SeqProcs :
      Returned(p, "dispatch") =>
        LET id == args[p].issueId
            r == result[p] IN
          /\ r.status \in {"dispatched", "error", "already_dispatched"}
          /\ r.status = "dispatched" =>
               /\ id \in DOMAIN registry
               /\ registry[id] = r.entry
               /\ Cardinality({k \in DOMAIN registry : registry[k].issueId = id}) = 1
          /\ r.status = "error" =>
               /\ id \notin DOMAIN registry
               /\ {k \in DOMAIN registry : registry[k].issueId = id} = {}

C1_Witness ==
    \E p \in SeqProcs :
      /\ Returned(p, "dispatch")
      /\ result[p].status = "dispatched"
      /\ args[p].issueId \in DOMAIN registry

\* C2: a dispatch of an issue that is already registered returns
\* "already_dispatched" with the fields of the existing entry, in the
\* segment in which it is called: the registry, the tracker, tmux, the
\* worktrees and the log files are unchanged and the call has made no
\* collaborator call and emitted no event.
C2_DuplicateDispatchShortCircuits ==
    [][\A p \in SeqProcs :
         (Starts(p, "dispatch") /\ args'[p].issueId \in DOMAIN registry) =>
           /\ pc'[p] = "returned"
           /\ result'[p].status = "already_dispatched"
           /\ result'[p].entry = registry[args'[p].issueId]
           /\ trace'[p] = <<>>
           /\ registry' = registry
           /\ UNCHANGED envVars]_vars

C2_Witness ==
    \E p \in SeqProcs :
      /\ Returned(p, "dispatch")
      /\ result[p].status = "already_dispatched"
      /\ result[p].entry = registry[args[p].issueId]
      /\ result[p].entry.sessionId \in SessionIds

\* C3: checkAgent, followupAgent, abortAgent and cleanupAgent called for an
\* issue that is not in the registry return "not_found" in the segment in
\* which they are called, with no collaborator call, no event and no change
\* of the registry or of the tracker, tmux, worktrees and log files.
C3_UnknownIssueNotFound ==
    [][\A p \in SeqProcs :
         ((\E name \in {"check", "followup", "abort", "cleanup"} : Starts(p, name))
            /\ args'[p].issueId \notin DOMAIN registry) =>
           /\ pc'[p] = "returned"
           /\ result'[p].status = "not_found"
           /\ result'[p].issueId = args'[p].issueId
           /\ trace'[p] = <<>>
           /\ registry' = registry
           /\ UNCHANGED envVars]_vars

C3_Witness ==
    \E p \in SeqProcs :
      /\ Returned(p, "cleanup")
      /\ result[p].status = "not_found"
      /\ DOMAIN registry # {}
      /\ args[p].issueId \notin DOMAIN registry

\* the steps and events of a call, in the order in which they completed
StepNames(p) == [i \in DOMAIN trace[p] |-> trace[p][i].step]

Failed(p, name) == Step(name, FALSE) \in {trace[p][i] : i \in DOMAIN trace[p]}

IsPrefix(a, b) == Len(a) <= Len(b) /\ a = SubSeq(b, 1, Len(a))

\* C4: of two (or more) dispatch calls of the same issue that all passed
\* the guard before any of them inserted its entry, at most one returns
\* "dispatched", at most one launches a tmux session, and no entry inserted
\* by one is replaced by another.
C4_RacingDispatchesAdmitOne ==
    \A p \in Procs : \A q \in rival[p] :
      (args[p].name = "dispatch" /\ args[q].name = "dispatch"
         /\ args[p].issueId = args[q].issueId) =>
        /\ ~(Did(p, "tmux_new") /\ Did(q, "tmux_new"))
        /\ ~(Did(p, "registry.set") /\ Did(q, "registry.set"))
        /\ ~(/\ Returned(p, "dispatch") /\ result[p].status = "dispatched"
             /\ Returned(q, "dispatch") /\ result[q].status = "dispatched")

\* the steps that C5 orders
IsOrderedStep(e) ==
    e.step \in {"claim", "emit:claimed", "wt_create", "rm_log", "tmux_new", "port",
                "post_session", "post_prompt", "write_meta", "registry.set",
                "emit:running"}

OrderedSteps(p) ==
    LET sel == SelectSeq(trace[p], IsOrderedStep) IN [i \in DOMAIN sel |-> sel[i].step]

DispatchOrder(skip) ==
    <<"claim", "emit:claimed">>
      \o (IF skip THEN <<>> ELSE <<"wt_create">>)
      \o <<"rm_log", "tmux_new", "port", "post_session", "post_prompt", "write_meta",
           "registry.set", "emit:running">>

\* C5: the steps of a dispatch are made one after the other in the order:
\* tracker status set to in_progress, `claimed` emitted, worktree created
\* (unless skipped), log file cleared, tmux session created, port
\* discovered, control session requested, prompt submitted, metadata
\* written, entry inserted, `running` emitted.  What a dispatch has done so
\* far is at every moment a prefix of that list, and a dispatch that
\* returns "dispatched" has done all of it.
C5_DispatchStepsInOrder ==
    \A p \in SeqProcs :
      args[p].name = "dispatch" =>
        /\ IsPrefix(OrderedSteps(p), DispatchOrder(args[p].skipWorktree))
        /\ (pc[p] = "returned" /\ result[p].status = "dispatched") =>
             OrderedSteps(p) = DispatchOrder(args[p].skipWorktree)

C5_Witness ==
    \E p \in SeqProcs :
      /\ Returned(p, "dispatch")
      /\ result[p].status = "dispatched"
      /\ ~args[p].skipWorktree
      /\ Did(p, "wt_create")

\* C6: a dispatch whose POST /session or POST prompt_async failed (network
\* error, non-success response, response without a session id) returns
\* "error" and inserts no entry; hence every registered entry carries a
\* session id that a worker's control API issued.
C6_ControlApiFailureAbortsDispatch ==
    /\ \A p \in SeqProcs :
         (Returned(p, "dispatch")
            /\ (Failed(p, "post_session") \/ Failed(p, "post_prompt"))) =>
           /\ result[p].status = "error"
           /\ args[p].issueId \notin DOMAIN registry
    /\ \A id \in DOMAIN registry : registry[id].sessionId \in SessionIds

\* number of times the log file was read
LogReads(p) == Cardinality({i \in DOMAIN trace[p] : trace[p][i].step = "cat_log"})

\* C7: a dispatch that launched the worker and never found the port line in
\* the log file before the deadline returns "error" with the timeout
\* message, leaves no entry for the issue and emits no `running`; it has
\* read the log at least once and no more often than the deadline allows.
C7_PortTimeoutFailsDispatch ==
    \A p \in SeqProcs :
      (Returned(p, "dispatch") /\ Did(p, "tmux_new") /\ ~Did(p, "cat_log")) =>
        /\ result[p].status = "error"
        /\ result[p].error = TimeoutMsg
        /\ args[p].issueId \notin DOMAIN registry
        /\ ~Tried(p, "emit:running")
        /\ ~Tried(p, "post_session")
        /\ LogReads(p) \in 1..MaxPolls

C7_Witness ==
    \E p \in SeqProcs :
      /\ Returned(p, "dispatch")
      /\ result[p].error = TimeoutMsg
      /\ LogReads(p) = MaxPolls
      /\ tmuxSession(args[p].issueId) \in DOMAIN tmux

KnownNotes ==
    {"tmux killed", "tmux already gone", "worktree deleted", "worktree delete failed",
     "status set to", "status update failed", "synced"}

NoteTexts(r) == {r.actions[i].note : i \in DOMAIN r.actions}

WorktreeStepTried(p) == Tried(p, "wt_delete") \/ Tried(p, "wt_delete_force")

WorktreeStepFailed(p) == Failed(p, "wt_delete") \/ Failed(p, "wt_delete_force")

\* whether note n marks cleanup step s as failed
MarksFailed(n, s) ==
    IF s = "kill_tmux" THEN n.note = "tmux already gone"
    ELSE IF s = "wt_delete" THEN n.note = "worktree delete failed"
    ELSE IF s = "set_status" THEN n.note = "status update failed"
    ELSE n.note \notin KnownNotes

CleanupStepFailed(p, s) ==
    IF s = "wt_delete" THEN WorktreeStepFailed(p) ELSE Failed(p, s)

\* the list that the outcomes of the steps call for
ExpectedActions(p) ==
    <<KillNote(~Failed(p, "kill_tmux"))>>
      \o (IF WorktreeStepTried(p) THEN <<WorktreeNote(~WorktreeStepFailed(p))>> ELSE <<>>)
      \o <<StatusNote(~Failed(p, "set_status"), newStatus(args[p].status))>>
      \o (IF Failed(p, "sync") THEN <<>> ELSE <<Note("synced", "")>>)

CleanedUp(p) == Returned(p, "cleanup") /\ result[p].status # "not_found"

\* C9 as stated: whatever fails among the tmux kill, the worktree deletion,
\* the status update and the sync, cleanup returns "cleaned_up", the issue
\* is no longer registered, and the actions list holds a failure note for
\* each failed step.
C9_EveryFailureLeavesItsNote ==
    \A p \in SeqProcs :
      CleanedUp(p) =>
        /\ result[p].status = "cleaned_up"
        /\ args[p].issueId \notin DOMAIN registry
        /\ \A s \in {"kill_tmux", "wt_delete", "set_status", "sync"} :
             CleanupStepFailed(p, s) =>
               \E i \in DOMAIN result[p].actions : MarksFailed(result[p].actions[i], s)

\* C9 (amended): cleanup of a registered issue makes every step whatever
\* failed before: it returns "cleaned_up", the issue is no longer
\* registered, the tmux kill, the worktree deletion (exactly when the entry
\* has a worktree), the status update, the sync, the registry removal and
\* the log deletion were all made, and the actions list holds in step order
\* one note for each of tmux kill, worktree deletion and status update (its
\* failure note if it failed, its success note otherwise) followed by
\* "synced" if the sync succeeded; a failed sync leaves no note.
C9_CleanupRunsEveryStep ==
    \A p \in SeqProcs :
      /\ CleanedUp(p) =>
           /\ result[p].status = "cleaned_up"
           /\ args[p].issueId \notin DOMAIN registry
           /\ \A s \in {"kill_tmux", "set_status", "sync", "registry.delete", "rm_log"} :
                Tried(p, s)
           /\ result[p].actions = ExpectedActions(p)
      /\ (args[p].name = "cleanup"
            /\ pc[p] \in {"set_status", "emit_terminal", "sync", "rm_log_cleanup"}) =>
           (WorktreeStepTried(p) <=> loc[p].agent.branch # NoWorktree)

C9_Witness ==
    \E p \in SeqProcs :
      /\ CleanedUp(p)
      /\ WorktreeStepFailed(p)
      /\ result[p].actions = <<Note("tmux killed", ""),
                               Note("worktree delete failed", "message"),
                               Note("status set to", "in_review"),
                               Note("synced", "")>>

Emitted(p, ev) == Cardinality({i \in DOMAIN trace[p] : trace[p][i].step = ev})

TerminalEvents(p) == Emitted(p, "emit:finished") + Emitted(p, "emit:closed")

\* C11 as stated: a cleanup of a registered task emits exactly one terminal
\* event, `finished` or `closed`, for each status the tool accepts
\* (in_review, todo_refined, done, or none given): `finished` for in_review
\* and for no status, `closed` for done.
C11_CleanupEmitsOneTerminalEvent ==
    \A p \in SeqProcs :
      CleanedUp(p) =>
        /\ TerminalEvents(p) = 1
        /\ args[p].status \in {"", "in_review"} => Emitted(p, "emit:finished") = 1
        /\ args[p].status = "done" => Emitted(p, "emit:closed") = 1

\* C11 (amended): a cleanup of a registered task emits exactly one
\* `finished` and nothing else when it sets in_review (given or by
\* default), exactly one `closed` and nothing else when it sets done, and
\* no lifecycle event at all when it sets todo_refined.
C11_TerminalEventByStatus ==
    \A p \in SeqProcs :
      CleanedUp(p) =>
        LET st == args[p].status IN
          /\ Emitted(p, "emit:finished") = (IF st \in {"", "in_review"} THEN 1 ELSE 0)
          /\ Emitted(p, "emit:closed") = (IF st = "done" THEN 1 ELSE 0)
          /\ st = "todo_refined" => TerminalEvents(p) = 0

C11_Witness ==
    \E p \in SeqProcs :
      /\ CleanedUp(p)
      /\ args[p].status = "todo_refined"
      /\ Did(p, "set_status")
      /\ TerminalEvents(p) = 0


\* the records of the list read by the run of reconstructRegistry in progress
\* or last finished
ListedIds == {boot.listed[i].id : i \in DOMAIN boot.listed}

\* the verdicts the loop has reached for a record in this run
Verdicts(id) ==
    {boot.seen[i].verdict : i \in {j \in DOMAIN boot.seen : boot.seen[j].id = id}}

\* a description that carries a port, a tmux session name and a session id
Complete(desc) == desc.kind = "meta" /\ desc.port # 0 /\ desc.tmux # <<>> /\ desc.session # ""

\* C12: reconstructRegistry inserts an entry for a task in progress only
\* when its description carries all three of port, tmux session name and
\* session id, and the tmux session of that name is alive; a task lacking a
\* field, or whose tmux session is dead, gets no entry
C12_ReconstructedOnlyIfCompleteAndAlive ==
    /\ \A id \in DOMAIN registry :
         /\ trackerStatus[id] = "in_progress"
         /\ Complete(trackerDesc[id])
         /\ trackerDesc[id].tmux \in DOMAIN tmux
         /\ registry[id].port = trackerDesc[id].port
         /\ registry[id].tmuxSession = trackerDesc[id].tmux
         /\ registry[id].sessionId = trackerDesc[id].session
    /\ \A id \in ListedIds :
         ~Complete(trackerDesc[id]) \/ trackerDesc[id].tmux \notin DOMAIN tmux
           => id \notin DOMAIN registry

\* reconstructRegistry returned after it inserted one of two listed tasks
\* and skipped the other, whose tmux session is dead
C12_Witness ==
    /\ boot.pc = "returned"
    /\ boot.outcome = "ok"
    /\ \E id, other \in ListedIds :
         /\ id \in DOMAIN registry
         /\ "inserted" \in Verdicts(id)
         /\ Complete(trackerDesc[other])
         /\ trackerDesc[other].tmux \notin DOMAIN tmux
         /\ "dead" \in Verdicts(other)
         /\ other \notin DOMAIN registry


\* both runs of reconstructRegistry read the list of records and returned
RanTwice ==
    /\ boot.runs = 2
    /\ boot.pc = "returned"
    /\ boot.before = "ok"
    /\ boot.outcome = "ok"

\* C13: reconstructRegistry is idempotent: a second run over unchanged
\* tracker records and tmux sessions leaves every entry equal, field by
\* field and dispatchedAt included, to what the first run left, also for
\* records that carry no updated_at
C13_SecondRunLeavesEntriesEqual ==
    RanTwice => registry = boot.first

\* a listed record names a later record of the list when it comes after it
Later(id, other) ==
    \E i, j \in DOMAIN boot.listed :
        i < j /\ boot.listed[i].id = id /\ boot.listed[j].id = other

\* C14: whatever one task's record makes of its iteration (description
\* missing, no string or unparseable, liveness check failed), the tasks
\* listed after it are still examined, and inserted when complete and alive
C14_LaterTasksStillExamined ==
    boot.pc = "returned" /\ boot.outcome = "ok" =>
      \A id \in ListedIds :
          /\ Verdicts(id) # {}
          /\ Complete(trackerDesc[id]) /\ trackerDesc[id].tmux \in DOMAIN tmux
               => id \in DOMAIN registry

\* the records the loop has inserted in this run
Inserted == {id \in ListedIds : "inserted" \in Verdicts(id)}

\* C15: reconstructRegistry never raises: whatever fails (the tracker
\* query, its timeout, the parse, an iteration), the function returns,
\* startup can go on to hand out the tools, the entries inserted before
\* the failure stay, and nothing but the registry is changed
C15_ReconstructNeverRaises ==
    /\ [](boot.pc # "raised")
    /\ [](boot.pc = "returned" /\ ~boot.ready => ENABLED PluginReady)
    /\ [](\A id \in Inserted : id \in DOMAIN registry)
    /\ [][/\ UNCHANGED <<trackerStatus, trackerDesc, worktrees, tmux, logs>>
          /\ UNCHANGED <<pc, args, loc, trace, result, poller>>
          /\ \A id \in DOMAIN registry : id \in DOMAIN registry']_vars

\* startup finished after a run that inserted one entry and then failed on
\* the next record; the entry is in the registry
C15_Witness ==
    /\ boot.ready
    /\ boot.runs = 1
    /\ \E id, other \in ListedIds :
         /\ Later(id, other)
         /\ "inserted" \in Verdicts(id)
         /\ "threw" \in Verdicts(other)
         /\ id \in DOMAIN registry


\* the new plugin instance has just finished reconstructRegistry, which
\* read the list of records
Reconstructed ==
    /\ boot.restarted
    /\ boot.pc = "returned"
    /\ ~boot.ready
    /\ boot.outcome = "ok"

\* C16: after a dispatch, a restart of the coordinator and the
\* reconstruction of the new instance, a task that is still in progress with
\* its tmux session alive has an entry with the same key, port, session id
\* and tmux session name as the entry the dispatch made
C16_RestartRestoresDispatchedEntry ==
    Reconstructed =>
      \A id \in DOMAIN boot.prev :
          trackerStatus[id] = "in_progress" /\ boot.prev[id].tmuxSession \in DOMAIN tmux
            => /\ id \in DOMAIN registry
               /\ registry[id].issueId = boot.prev[id].issueId
               /\ registry[id].port = boot.prev[id].port
               /\ registry[id].sessionId = boot.prev[id].sessionId
               /\ registry[id].tmuxSession = boot.prev[id].tmuxSession


\* the events the poll cycle has emitted for an entry, in order
EventsFor(id) ==
    LET mine == SelectSeq(poller.events, LAMBDA e : e.id = id) IN
      [i \in DOMAIN mine |-> mine[i].event]

\* the number of status probes the poll cycle has made of an entry
ProbesOf(id) == Cardinality({i \in DOMAIN poller.probes : poller.probes[i].id = id})

\* C19: in one poll cycle every registry entry is probed once; a probe that
\* gets a non-success HTTP status or fails at the network level gives
\* exactly one errored event for its task, a probe that reports the worker
\* idle gives exactly one finished event, and the events of an entry depend
\* on the outcome of its own probe only
C19_PollEmitsOneEventPerProbe ==
    /\ \A id \in Tasks : ProbesOf(id) <= 1
    /\ Probed(poller) \subseteq DOMAIN registry
    /\ poller.pc = "sync" => Probed(poller) = DOMAIN registry
    /\ \A i \in DOMAIN poller.probes :
         LET id == poller.probes[i].id
             outcome == poller.probes[i].outcome IN
           /\ outcome \in {"http_error", "network_error"} => EventsFor(id) = <<"agent:errored">>
           /\ outcome \in {"idle_status", "idle_flag"} => EventsFor(id) = <<"agent:finished">>
           /\ outcome = "ok_text" => EventsFor(id) = <<"agent:errored">>
           /\ outcome = "busy" => EventsFor(id) = <<>>

\* a cycle over two entries is over: the probe of one got a non-success
\* response and gave errored, the probe of the other reported idle and gave
\* finished
C19_Witness ==
    /\ poller.pc = "idle"
    /\ \E i, j \in DOMAIN poller.probes :
         /\ poller.probes[i].outcome = "http_error"
         /\ poller.probes[j].outcome = "idle_status"
         /\ EventsFor(poller.probes[i].id) = <<"agent:errored">>
         /\ EventsFor(poller.probes[j].id) = <<"agent:finished">>

\* the status fetch of this entry is the one that never settles
Hung(id) == poller.hung /\ poller.cur = id

\* C20: a status probe that never completes does not keep the probes of the
\* other registered workers of the same poll cycle, and their events, from
\* happening: every other entry of a running cycle is eventually probed
C20_HungProbeDoesNotBlockOthers ==
    \A id \in Tasks :
        (poller.pc # "idle" /\ id \in DOMAIN registry /\ ~Hung(id))
          ~> (id \in Probed(poller) \/ Hung(id))


\* C17: no tool operation and no poll cycle runs before reconstructRegistry
\* has completed, and reconstruction runs exactly once per plugin instance
C17_NothingRunsBeforeReconstruct ==
    /\ ~boot.ready => (\A p \in Procs : pc[p] = "idle") /\ poller.pc = "idle"
    /\ boot.ready => boot.pc = "returned" /\ boot.runs = 1
    /\ boot.runs <= 1

\* in the instance started after a restart, reconstruction has run and a
\* tool call and a poll cycle are under way
C17_Witness ==
    /\ boot.restarted
    /\ boot.ready
    /\ boot.runs = 1
    /\ \E p \in Procs : pc[p] \notin {"idle", "returned"}
    /\ poller.pc = "fetch"


\* the last message of the list a status probe got
LastOf(probe) == probe.messages[Len(probe.messages)]

\* C18: the state getSessionStatus gives, for every answer of the worker: a
\* network or parse failure or a non-success response gives unreachable; an
\* empty list gives idle; a last message of the assistant that is completed
\* or done gives finished; one of the assistant that is streaming gives
\* running; one of the user gives running; any other role and status give
\* idle; a state is always returned
C18_StatusResolverTable ==
    \A p \in Procs :
        LET probe == loc[p].probe
            state == loc[p].sessionStatus IN
          probe.outcome # "" =>
            /\ state \in {"unreachable", "idle", "finished", "running"}
            /\ probe.outcome \in {"network_error", "ok_text", "http_error_json",
                                  "http_error_text"} => state = "unreachable"
            /\ probe.outcome = "ok" /\ probe.messages = <<>> => state = "idle"
            /\ probe.outcome = "ok" /\ probe.messages # <<>> =>
                 /\ LastOf(probe).role = "assistant"
                      /\ LastOf(probe).status \in {"completed", "done"} => state = "finished"
                 /\ LastOf(probe).role = "assistant"
                      /\ LastOf(probe).status = "streaming" => state = "running"
                 /\ LastOf(probe).role = "user" => state = "running"
                 /\ LastOf(probe).role = "assistant"
                      /\ LastOf(probe).status \notin {"completed", "done", "streaming"}
                      => state = "idle"
                 /\ LastOf(probe).role \notin {"assistant", "user"} => state = "idle"

\* a probe whose last message is of the assistant with a status the resolver
\* does not know was resolved to idle
C18_Witness ==
    \E p \in Procs :
        /\ args[p].name = "check"
        /\ loc[p].probe.outcome = "ok"
        /\ loc[p].probe.messages = <<Msg("user", "completed"), Msg("assistant", "pending")>>
        /\ loc[p].sessionStatus = "idle"


\* the state of a worker as a status probe shows it
Observed(outcome) ==
    IF outcome \in {"idle_status", "idle_flag"} THEN "idle"
    ELSE IF outcome = "busy" THEN "busy"
    ELSE "unreachable"

\* C21: over successive poll cycles an event is raised for a task only when
\* its observed state has changed: a worker seen idle (or unreachable) in
\* this cycle as in the cycle before gives no further finished (or errored)
\* event
C21_PollEmitsOnlyOnChange ==
    \A i \in DOMAIN poller.probes, j \in DOMAIN poller.past :
        /\ poller.probes[i].id = poller.past[j].id
        /\ Observed(poller.probes[i].outcome) = Observed(poller.past[j].outcome)
        => ~\E k \in DOMAIN poller.events : poller.events[k].id = poller.probes[i].id


\* the caller has an emit in progress
Emitting(c) == emitter.run[c].event # ""

StepOf(p, name) ==
    /\ args'[p].name = name
    /\ <<pc[p], trace[p], args[p]>> # <<pc'[p], trace'[p], args'[p]>>

\* C23: an abort of a registered task emits one `aborted` event exactly
\* when the abort request was answered with HTTP success; whether it
\* returns aborted, failed or error, no step of it changes the registry
\* or the tmux sessions, and the task is still registered when it returns
C23_AbortEmitsOnSuccessAndKeepsWorker ==
    /\ [](\A p \in Procs :
            pc[p] = "returned" /\ args[p].name = "abort" /\ result[p].status # "not_found"
              => /\ result[p].status \in {"aborted", "failed", "error"}
                 /\ Emitted(p, "emit:aborted")
                      = (IF [step |-> "post_abort", ok |-> TRUE]
                              \in {trace[p][i] : i \in DOMAIN trace[p]} THEN 1 ELSE 0)
                 /\ result[p].status = "aborted" <=> Emitted(p, "emit:aborted") = 1
                 /\ result[p].status = "error" <=> Tried(p, "catch")
                 /\ args[p].issueId \in DOMAIN registry)
    /\ [][\A p \in Procs :
            StepOf(p, "abort") => registry' = registry /\ tmux' = tmux]_vars

\* an abort answered with a non-success response has returned "failed"
\* and the worker of the task is still alive
C23_Witness ==
    \E p \in Procs :
        /\ pc[p] = "returned" /\ args[p].name = "abort"
        /\ result[p].status = "failed"
        /\ args[p].issueId \in DOMAIN registry
        /\ registry[args[p].issueId].tmuxSession \in DOMAIN tmux

\* C24: a followup of a registered task returns "sent" exactly when
\* prompt_async was answered with HTTP success, "failed" on another
\* response and "error" when the request failed; the request is its only
\* step, no step of it changes the registry and it emits no event
C24_FollowupReportsHttpOutcomeOnly ==
    /\ [](\A p \in Procs :
            pc[p] = "returned" /\ args[p].name = "followup" /\ result[p].status # "not_found"
              => /\ result[p].status \in {"sent", "failed", "error"}
                 /\ result[p].status = "sent"
                      <=> [step |-> "post_prompt", ok |-> TRUE]
                             \in {trace[p][i] : i \in DOMAIN trace[p]}
                 /\ result[p].status = "error" <=> Tried(p, "catch")
                 /\ \A i \in DOMAIN trace[p] : trace[p][i].step \in {"post_prompt", "catch"})
    /\ [](\A p \in Procs : args[p].name = "followup" => emitter.run[p].event = "")
    /\ [][\A p \in Procs : StepOf(p, "followup") => registry' = registry]_vars

\* a followup answered with a non-success response has returned "failed"
C24_Witness ==
    \E p \in Procs :
        /\ pc[p] = "returned" /\ args[p].name = "followup"
        /\ result[p].status = "failed"
        /\ Len(trace[p]) = 1


\* the message requests in the trace of p: the one of getSessionStatus,
\* then the one of checkAgent itself
MessageRequests(p) == SelectSeq(trace[p], LAMBDA e : e.step = "get_messages")

\* C25: a check of a registered task whose own message request failed or
\* was answered with a non-success response tries the tmux capture, and
\* returns the tmux fallback when the capture succeeds and "unreachable"
\* only when the capture fails too
C25_UnreachableApiFallsBackToTmux ==
    \A p \in Procs :
        /\ pc[p] = "returned" /\ args[p].name = "check"
        /\ Len(MessageRequests(p)) = 2
        /\ ~MessageRequests(p)[2].ok
        => /\ Tried(p, "tmux_capture")
           /\ [step |-> "tmux_capture", ok |-> TRUE] \in {trace[p][i] : i \in DOMAIN trace[p]}
                => result[p].status = "api_unreachable_tmux_fallback"
           /\ result[p].status = "unreachable"
                => [step |-> "tmux_capture", ok |-> FALSE] \in {trace[p][i] : i \in DOMAIN trace[p]}


\* C26: the entries a listAgents call visits are those the registry held
\* when the call obtained registry.entries(), whatever was inserted or
\* deleted while the loop was suspended
C26_EntriesIsSnapshotAtCall ==
    [][\A p \in Procs :
         /\ args[p].name = "list"
         /\ pc[p] \in {"list_status", "list_tmux", "list_diff"}
         /\ pc'[p] = "returned"
         => {result'[p].agents[i].issueId : i \in DOMAIN result'[p].agents}
              = loc[p].snapshot]_vars


\* C27: no step of a check, a followup, an abort, a listAgents call, a
\* dispatch of a registered issue or a poll cycle changes the registry, and
\* an entry stays as it was inserted until the registry.delete of a cleanup
\* of its issue removes it
C27_EntryKeptUntilCleanup ==
    /\ [][\A p \in Procs :
            \/ StepOf(p, "check") \/ StepOf(p, "followup") \/ StepOf(p, "abort")
            \/ StepOf(p, "list") \/ StepOf(p, "dispatch")
            => registry' = registry]_vars
    /\ [][poller' # poller => registry' = registry]_vars
    /\ [][\A id \in DOMAIN registry :
            \/ id \in DOMAIN registry' /\ registry'[id] = registry[id]
            \/ /\ id \notin DOMAIN registry'
               /\ \E p \in Procs : /\ args[p].name = "cleanup"
                                   /\ args[p].issueId = id
                                   /\ pc[p] = "sync"]_vars

\* a poll cycle has probed the entry and a dispatch of its issue was turned
\* away, and the entry is the one the state began with
C27_Witness ==
    /\ poller.probes # <<>>
    /\ poller.pc = "idle"
    /\ \E p \in Procs :
         /\ pc[p] = "returned" /\ args[p].name = "dispatch"
         /\ result[p].status = "already_dispatched"
         /\ args[p].issueId \in DOMAIN registry
         /\ registry[args[p].issueId].port = 4096


\* the status tags of the outcomes of an operation
StatusTags(name) ==
    IF name = "dispatch" THEN {"dispatched", "already_dispatched", "error"}
    ELSE IF name = "check" THEN {"not_found", "running", "idle", "finished", "unreachable",
                                 "api_unreachable_tmux_fallback"}
    ELSE IF name = "followup" THEN {"not_found", "sent", "failed", "error"}
    ELSE IF name = "abort" THEN {"not_found", "aborted", "failed", "error"}
    ELSE IF name = "cleanup" THEN {"not_found", "cleaned_up"}
    ELSE {}

C29_DispatchEventuallyReturns ==
    \A p \in SeqProcs :
        (args[p].name = "dispatch" /\ pc[p] \notin {"idle", "returned"})
            ~> (pc[p] = "returned")


\* C30: a run of reconstructRegistry that has spawned its list query comes
\* to return; when the query never exits, proc.kill() was called, the run
\* took the result for empty, examined no issue and left the registry empty
C30_ReconstructReturnsWhenQueryHangs ==
    /\ (boot.pc = "list") ~> (boot.pc = "returned")
    /\ [](boot.stuck /\ boot.pc = "returned"
            => /\ boot.killed
               /\ boot.outcome = "timeout"
               /\ boot.seen = <<>>
               /\ registry = << >>)

\* the startup has ended after a list query that never exited, with issues
\* in progress whose workers are alive
C30_Witness ==
    /\ boot.stuck
    /\ boot.ready
    /\ boot.killed
    /\ \E t \in Tasks : /\ trackerStatus[t] = "in_progress"
                        /\ trackerDesc[t].kind = "meta"
                        /\ tmuxSession(t) \in DOMAIN tmux


C32_CleanupDeletesWhatDispatchCreated ==
    \A p \in Procs :
        args[p].name = "cleanup" /\ pc[p] = "wt_delete"
          => loc[p].agent.branch \in worktrees

\* C33: the branch label that reconstruction derives from the tmux session
\* name of an issue id is that issue id, for every id, those that hold an
\* underscore included.
C33_BranchInvertsTmuxName ==
    \A p \in Procs :
        args[p].name = "names" /\ pc[p] = "returned"
          => loc[p].agent.branch = args[p].issueId

\* C34: the three values that the reconstruction patterns read from a
\* description are the port, the tmux session name and the session id that
\* dispatch wrote into it, also when the blanks of the fragment are wider
\* and when other text stands before and after the fragment.
C34_MetadataRoundTrip ==
    \A p \in Procs :
        args[p].name = "meta" /\ pc[p] = "returned"
          => /\ loc[p].agent.port = loc[p].port
             /\ loc[p].agent.tmuxSession = tmuxSession(args[p].issueId)
             /\ loc[p].agent.sessionId = loc[p].sessionId

\* the handlers the map holds for a kind of event, in the order of the array
ListOf(e, k) == IF k \in DOMAIN e.handlers THEN e.handlers[k] ELSE <<>>

\* C35: the array of a kind changes only by on, which adds the handler at
\* its end, and by off, which takes this handler out and leaves the others
\* in their order; an emit invokes, one at a time and in their order, only
\* handlers that its kind had when it started or got since; so a handler
\* taken out by off is invoked by no emit that starts later, unless it is
\* registered again.
C35_BusRegistrationSemantics ==
    /\ [][\A k \in EventKinds :
            ListOf(emitter', k) # ListOf(emitter, k)
              => \/ /\ emitter'.last.op = "on" /\ emitter'.last.event = k
                    /\ ListOf(emitter', k) = Append(ListOf(emitter, k), emitter'.last.handler)
                 \/ /\ emitter'.last.op = "off" /\ emitter'.last.event = k
                    /\ ListOf(emitter', k)
                         = SelectSeq(ListOf(emitter, k), LAMBDA h : h # emitter'.last.handler)]_vars
    /\ [](emitter.last.op = "off"
            => \A i \in DOMAIN ListOf(emitter, emitter.last.event) :
                   ListOf(emitter, emitter.last.event)[i] # emitter.last.handler)
    /\ [][\A c \in Callers :
            /\ emitter.run[c].event = "" /\ emitter'.run[c].event # ""
                 => /\ emitter'.run[c].atStart = ListOf(emitter, emitter'.run[c].event)
                    /\ emitter'.run[c].added = <<>>
                    /\ emitter'.run[c].invoked = <<>>
            /\ emitter.run[c].event # "" /\ emitter'.run[c].event # ""
                 => /\ emitter'.run[c].event = emitter.run[c].event
                    /\ emitter'.run[c].atStart = emitter.run[c].atStart
                    /\ Len(emitter'.run[c].invoked) <= Len(emitter.run[c].invoked) + 1
                    /\ emitter'.run[c].added # emitter.run[c].added
                         => /\ emitter'.last.op = "on"
                            /\ emitter'.last.event = emitter.run[c].event
                            /\ emitter'.run[c].added
                                 = Append(emitter.run[c].added, emitter'.last.handler)]_vars
    /\ [](\A c \in Callers :
            emitter.run[c].event # ""
              => /\ Len(emitter.run[c].invoked)
                      <= Len(emitter.run[c].atStart \o emitter.run[c].added)
                 /\ \A i \in DOMAIN emitter.run[c].invoked :
                        /\ emitter.run[c].invoked[i].handler = i
                        /\ emitter.run[c].invoked[i].outcome
                             = (emitter.run[c].atStart \o emitter.run[c].added)[i])

\* an emit that started after off took a handler out of a kind that keeps
\* another handler has invoked what is left
C35_Witness ==
    \E c \in Callers :
        /\ emitter.last.op = "off"
        /\ emitter.run[c].event = emitter.last.event
        /\ ~emitter.run[c].detached
        /\ emitter.run[c].atStart # <<>>
        /\ emitter.run[c].atStart = ListOf(emitter, emitter.last.event)
        /\ Len(emitter.run[c].invoked) = Len(emitter.run[c].atStart)

\* the positions of a step in the trace of a call
Positions(p, name) == {i \in DOMAIN trace[p] : trace[p][i].step = name}

\* C36: a dispatch emits `running` once, in the segment in which it inserts
\* its entry and after its one `claimed`; a dispatch that returns an error
\* has emitted no `running` and at most one `claimed`; an entry enters the
\* registry either by such a dispatch or by reconstruction, which emits
\* nothing.
C36_RunningMarksInsertion ==
    /\ [](\A p \in Procs :
            args[p].name = "dispatch"
              => /\ Cardinality(Positions(p, "emit:running")) <= 1
                 /\ Cardinality(Positions(p, "emit:claimed")) <= 1
                 /\ Positions(p, "emit:running") # {} <=> Positions(p, "registry.set") # {}
                 /\ \A r \in Positions(p, "emit:running") :
                        /\ \E c \in Positions(p, "emit:claimed") : c < r
                        /\ \E i \in Positions(p, "registry.set") : i < r
                 /\ pc[p] = "returned" /\ result[p].status = "error"
                      => Positions(p, "emit:running") = {}
                 /\ pc[p] = "returned" /\ result[p].status = "dispatched"
                      => Positions(p, "emit:running") # {})
    /\ [][\A id \in Tasks :
            id \in DOMAIN registry' /\ id \notin DOMAIN registry
              => \/ \E p \in Procs :
                      /\ args'[p].name = "dispatch" /\ args'[p].issueId = id
                      /\ Len(trace'[p]) > Len(trace[p])
                      /\ trace'[p][Len(trace'[p])].step = "emit:running"
                      /\ emitter'.run[p].event = "agent:running"
                 \/ /\ boot' # boot
                    /\ trace' = trace
                    /\ emitter' = emitter]_vars
    /\ [][\A p \in Procs :
            emitter'.run[p].event = "agent:running" /\ emitter.run[p].event # "agent:running"
              => /\ args[p].issueId \notin DOMAIN registry
                 /\ args[p].issueId \in DOMAIN registry']_vars

\* a dispatch has returned "dispatched" after its `claimed` and `running`
C36_Witness ==
    \E p \in Procs :
        /\ pc[p] = "returned" /\ args[p].name = "dispatch"
        /\ result[p].status = "dispatched"
        /\ Positions(p, "emit:claimed") # {}
        /\ Positions(p, "emit:running") # {}

\* C37: a cleanup that has emitted `finished` or `closed` has had its
\* tracker status update succeed.
C37_TerminalEventOnlyAfterStatusSet ==
    \A p \in Procs :
        /\ args[p].name = "cleanup"
        /\ Positions(p, "emit:finished") \cup Positions(p, "emit:closed") # {}
        => [step |-> "set_status", ok |-> TRUE] \in {trace[p][i] : i \in DOMAIN trace[p]}

\* C38: of two cleanup calls for the same issue, made while its one entry
\* is registered or after, at most one returns "cleaned_up" and at most one
\* emits a terminal event.
C38_OneCleanupWins ==
    \A p, q \in Procs :
        /\ p # q
        /\ args[p].name = "cleanup" /\ args[q].name = "cleanup"
        /\ args[p].issueId = args[q].issueId
        => /\ ~(/\ pc[p] = "returned" /\ result[p].status = "cleaned_up"
                /\ pc[q] = "returned" /\ result[q].status = "cleaned_up")
           /\ ~(/\ Positions(p, "emit:finished") \cup Positions(p, "emit:closed") # {}
                /\ Positions(q, "emit:finished") \cup Positions(q, "emit:closed") # {})

\* C39: a dispatch that reads the log file of its issue after the worker
\* in its tmux session has announced its port finds the port, whatever the
\* other calls for the issue do in between: it does not go on to sleep and,
\* from there, to the port-discovery timeout.
C39_PollFindsAnnouncedPort ==
    [][\A p \in Procs :
         /\ args[p].name = "dispatch" /\ pc[p] = "cat_log"
         /\ tmuxSession(args[p].issueId) \in DOMAIN tmux
         /\ tmux[tmuxSession(args[p].issueId)].port # 0
         => pc'[p] # "sleep"]_vars

\* C40: after a restart, an entry of the rebuilt registry that names a live
\* tmux session carries the port of the worker in this session and, when
\* its session id is one that a worker issued, an id issued by this worker.
C40_AdoptedEntryMatchesWorker ==
    boot.restarted
      => \A id \in DOMAIN registry :
             registry[id].tmuxSession \in DOMAIN tmux
               => /\ registry[id].port = tmux[registry[id].tmuxSession].port
                  /\ registry[id].sessionId \in SessionIds
                       => registry[id].sessionId \in tmux[registry[id].tmuxSession].sessions

=============================================================================
